---- MODULE Spec2Model ----
(***************************************************************************)
(* Model of package bind of rburchell/gosh: the value coercer              *)
(* (setFieldValue), the field walk (forEachField), the required-field      *)
(* check (validateRequired) and the entry points BindForm, BindQuery and   *)
(* BindJSON.                                                               *)
(*                                                                         *)
(* Go values are modelled as tagged values [t |-> <Go type>, v |-> <data>]:*)
(*   string        a sequence of one-character strings                     *)
(*   bool          a BOOLEAN                                               *)
(*   intN, uintN   an integer, kept inside the width of the type           *)
(*   floatN        an integer n standing for the number n / FloatDen       *)
(*   *T            a heap address (0 is nil)                               *)
(*   []T           [nil, e]: e the sequence of the elements                *)
(*   map[K]V       [nil, m]: m a function from keys to elements            *)
(*   interface {}  the dynamic value held, NilV for the nil interface      *)
(***************************************************************************)
EXTENDS Integers, Sequences, FiniteSets, TLC

\* package bind: the record type T of obj, the record, the heap, the last call
VARIABLES T, rec, heap, last, calls

\* package envkv: the list or the text in hand and how it was come by
VARIABLES envkv

\* package fsatomic: the file system and the position of WriteFile in its code
VARIABLES fs

\* package flagx: the registered variables, their values and the sources of Parse
VARIABLES flagx

\* package middleware: the requests TagWithRequestID has served
VARIABLES mw

\* package slogx: the category loggers, the capturing handler and the last record logged
VARIABLES slogx

\* package uuidv4: the last call of String or FromString
VARIABLES uuid

\* package server: the last call of getClientIP
VARIABLES clientip

\* package execx: the goroutines and buffers of a call of Slurp
VARIABLES slurp

vars == <<T, rec, heap, last, calls, envkv, fs, flagx, mw, slogx, uuid, clientip, slurp>>

\* A specification of one package leaves the variables of the others unused.
Unused == "unused"

bindVars == <<T, rec, heap, last, calls>>

BindUnused == T = Unused /\ rec = Unused /\ heap = Unused /\ last = Unused /\ calls = Unused

EnvkvUnused == envkv = Unused

FsUnused == fs = Unused

FlagxUnused == flagx = Unused

MwUnused == mw = Unused

SlogxUnused == slogx = Unused

UuidUnused == uuid = Unused

ClientipUnused == clientip = Unused

SlurpUnused == slurp = Unused

notBind == <<envkv, fs, flagx, mw, slogx, uuid, clientip, slurp>>

OnlyBind ==
  EnvkvUnused /\ FsUnused /\ FlagxUnused /\ MwUnused /\ SlogxUnused /\ UuidUnused /\ ClientipUnused /\ SlurpUnused

notEnvkv == <<bindVars, fs, flagx, mw, slogx, uuid, clientip, slurp>>

OnlyEnvkv ==
  BindUnused /\ FsUnused /\ FlagxUnused /\ MwUnused /\ SlogxUnused /\ UuidUnused /\ ClientipUnused /\ SlurpUnused

notFs == <<bindVars, envkv, flagx, mw, slogx, uuid, clientip, slurp>>

OnlyFs ==
  BindUnused /\ EnvkvUnused /\ FlagxUnused /\ MwUnused /\ SlogxUnused /\ UuidUnused /\ ClientipUnused /\ SlurpUnused

notFlagx == <<bindVars, envkv, fs, mw, slogx, uuid, clientip, slurp>>

OnlyFlagx ==
  BindUnused /\ EnvkvUnused /\ FsUnused /\ MwUnused /\ SlogxUnused /\ UuidUnused /\ ClientipUnused /\ SlurpUnused

notMw == <<bindVars, envkv, fs, flagx, slogx, uuid, clientip, slurp>>

OnlyMw ==
  BindUnused /\ EnvkvUnused /\ FsUnused /\ FlagxUnused /\ SlogxUnused /\ UuidUnused /\ ClientipUnused /\ SlurpUnused

notSlogx == <<bindVars, envkv, fs, flagx, mw, uuid, clientip, slurp>>

OnlySlogx ==
  BindUnused /\ EnvkvUnused /\ FsUnused /\ FlagxUnused /\ MwUnused /\ UuidUnused /\ ClientipUnused /\ SlurpUnused

notUuid == <<bindVars, envkv, fs, flagx, mw, slogx, clientip, slurp>>

OnlyUuid ==
  BindUnused /\ EnvkvUnused /\ FsUnused /\ FlagxUnused /\ MwUnused /\ SlogxUnused /\ ClientipUnused /\ SlurpUnused

notClientip == <<bindVars, envkv, fs, flagx, mw, slogx, uuid, slurp>>

OnlyClientip ==
  BindUnused /\ EnvkvUnused /\ FsUnused /\ FlagxUnused /\ MwUnused /\ SlogxUnused /\ UuidUnused /\ SlurpUnused

notSlurp == <<bindVars, envkv, fs, flagx, mw, slogx, uuid, clientip>>

OnlySlurp ==
  BindUnused /\ EnvkvUnused /\ FsUnused /\ FlagxUnused /\ MwUnused /\ SlogxUnused /\ UuidUnused /\ ClientipUnused

(***************************************************************************)
(* Bounds of the model.                                                    *)
(***************************************************************************)
\* the number of cells reflect.New may allocate in one behaviour
MaxHeap == 3

\* the number of calls made on one record
MaxCalls == 2

\* floats are the dyadic rationals n / FloatDen
FloatDen == 2 * 2

(***************************************************************************)
(* The Go types of the model and what package reflect says about them.     *)
(***************************************************************************)
SignedTypes == {"int", "int8", "int16", "int32", "int64"}

UnsignedTypes == {"uint", "uint8", "uint16", "uint32", "uint64"}

FloatTypes == {"float32", "float64"}

AnyT == "interface {}"

PtrElem ==
  [t \in {"*string", "*bool", "*int", "*int8", "*uint8", "*float64", "**int", "*[]int",
           "*interface {}"} |->
     CASE t = "*string" -> "string"
       [] t = "*bool" -> "bool"
       [] t = "*int" -> "int"
       [] t = "*int8" -> "int8"
       [] t = "*uint8" -> "uint8"
       [] t = "*float64" -> "float64"
       [] t = "**int" -> "*int"
       [] t = "*[]int" -> "[]int"
       [] t = "*interface {}" -> AnyT]

SliceElem ==
  [t \in {"[]int", "[]int8", "[]string", "[]uint8", "[]*int", "[]interface {}"} |->
     CASE t = "[]int" -> "int"
       [] t = "[]int8" -> "int8"
       [] t = "[]string" -> "string"
       [] t = "[]uint8" -> "uint8"
       [] t = "[]*int" -> "*int"
       [] t = "[]interface {}" -> AnyT]

MapKey ==
  [t \in {"map[string]int", "map[string]string", "map[int]int", "map[string]interface {}"} |->
     IF t = "map[int]int" THEN "int" ELSE "string"]

MapElem ==
  [t \in DOMAIN MapKey |->
     CASE t = "map[string]int" -> "int"
       [] t = "map[string]string" -> "string"
       [] t = "map[int]int" -> "int"
       [] t = "map[string]interface {}" -> AnyT]

\* reflect.Kind, by class
IsInt(t) == t \in SignedTypes

IsUint(t) == t \in UnsignedTypes

IsFloat(t) == t \in FloatTypes

IsPtr(t) == t \in DOMAIN PtrElem

IsSlice(t) == t \in DOMAIN SliceElem

IsMap(t) == t \in DOMAIN MapKey

\* reflect.Kind.String()
KindName(t) ==
  CASE IsPtr(t) -> "ptr"
    [] IsSlice(t) -> "slice"
    [] IsMap(t) -> "map"
    [] t = AnyT -> "interface"
    [] OTHER -> t

\* reflect.Type.Elem()
Elem(t) ==
  CASE IsPtr(t) -> PtrElem[t]
    [] IsSlice(t) -> SliceElem[t]
    [] IsMap(t) -> MapElem[t]

\* reflect.Type.Bits()
Bits(t) ==
  CASE t \in {"int8", "uint8"} -> 8
    [] t \in {"int16", "uint16"} -> 16
    [] t \in {"int32", "uint32", "float32"} -> 32
    [] OTHER -> 64

(***************************************************************************)
(* Values.                                                                 *)
(***************************************************************************)
Val(t, v) == [t |-> t, v |-> v]

\* the nil interface value
NilV == Val("nil", 0)

\* the zero value of a type
Zero(t) ==
  CASE t = "string" -> Val(t, <<>>)
    [] t = "bool" -> Val(t, FALSE)
    [] IsInt(t) \/ IsUint(t) \/ IsFloat(t) -> Val(t, 0)
    [] IsPtr(t) -> Val(t, 0)
    [] IsSlice(t) -> Val(t, [nil |-> TRUE, e |-> <<>>])
    [] IsMap(t) -> Val(t, [nil |-> TRUE, m |-> <<>>])
    [] t = AnyT -> Val(t, NilV)

\* reflect.Value.Interface(): the dynamic value of a slot
Interface(x) == IF x.t = AnyT THEN x.v ELSE x

(***************************************************************************)
(* Errors: the format of fmt.Errorf and its arguments.                     *)
(***************************************************************************)
Err(msg, str, a, b, cause) == [msg |-> msg, str |-> str, a |-> a, b |-> b, cause |-> cause]

NoErr == Err("", <<>>, "", "", "")

ErrSyntax == "invalid syntax"

(***************************************************************************)
(* Package strconv, as setFieldValue calls it (base 10, 64 bits).  The     *)
(* strings of the model have a few digits only, so the range error         *)
(* of ParseInt and ParseUint (19 digits and more) is out of reach.         *)
(***************************************************************************)
DigitVal ==
  [c \in {"0", "1", "2", "3", "4", "5", "6", "7", "8", "9"} |->
     CASE c = "0" -> 0 [] c = "1" -> 1 [] c = "2" -> 2 [] c = "3" -> 3 [] c = "4" -> 4
       [] c = "5" -> 5 [] c = "6" -> 6 [] c = "7" -> 7 [] c = "8" -> 8 [] c = "9" -> 9]

IsDigits(s) == s # <<>> /\ \A i \in 1..Len(s) : s[i] \in DOMAIN DigitVal

RECURSIVE DigitsVal(_)
DigitsVal(s) ==
  IF s = <<>> THEN 0
  ELSE 10 * DigitsVal(SubSeq(s, 1, Len(s) - 1)) + DigitVal[s[Len(s)]]

Parsed(ok, val) == [ok |-> ok, val |-> val, cause |-> IF ok THEN "" ELSE ErrSyntax]

\* strconv.ParseUint(s, 10, 64): digits only, no sign
ParseUint(s) ==
  IF IsDigits(s) THEN Parsed(TRUE, DigitsVal(s)) ELSE Parsed(FALSE, 0)

\* strconv.ParseInt(s, 10, 64): an optional sign, then digits
ParseInt(s) ==
  IF s = <<>> THEN Parsed(FALSE, 0)
  ELSE LET signed == Head(s) \in {"+", "-"}
           body == IF signed THEN Tail(s) ELSE s
       IN  IF ~IsDigits(body) THEN Parsed(FALSE, 0)
           ELSE Parsed(TRUE, IF Head(s) = "-" THEN -DigitsVal(body) ELSE DigitsVal(body))

\* strconv.ParseBool
ParseBool(s) ==
  CASE s \in {<<"1">>, <<"t">>, <<"T">>, <<"t", "r", "u", "e">>, <<"T", "R", "U", "E">>,
              <<"T", "r", "u", "e">>} -> Parsed(TRUE, TRUE)
    [] s \in {<<"0">>, <<"f">>, <<"F">>, <<"f", "a", "l", "s", "e">>,
              <<"F", "A", "L", "S", "E">>, <<"F", "a", "l", "s", "e">>} -> Parsed(TRUE, FALSE)
    [] OTHER -> Parsed(FALSE, FALSE)

\* the position of the first c in s, 0 if there is none
IndexOf(s, c) ==
  IF \E i \in 1..Len(s) : s[i] = c
  THEN CHOOSE i \in 1..Len(s) : s[i] = c /\ \A j \in 1..(i - 1) : s[j] # c
  ELSE 0

\* strconv.ParseFloat(s, 64) on decimal literals sign? digits? ('.' digits?)?; the
\* strings of the model hold no exponent, no hexadecimal form, no "inf" and no
\* "nan", and their fractions are multiples of 1 / FloatDen.
ParseFloat(s) ==
  IF s = <<>> THEN Parsed(FALSE, 0)
  ELSE LET signed == Head(s) \in {"+", "-"}
           body == IF signed THEN Tail(s) ELSE s
           dot == IndexOf(body, ".")
           ip == IF dot = 0 THEN body ELSE SubSeq(body, 1, dot - 1)
           fp == IF dot = 0 THEN <<>> ELSE SubSeq(body, dot + 1, Len(body))
           wellformed == /\ ip = <<>> \/ IsDigits(ip)
                         /\ fp = <<>> \/ IsDigits(fp)
                         /\ ip # <<>> \/ fp # <<>>
           num == DigitsVal(ip) * FloatDen + (DigitsVal(fp) * FloatDen) \div (10 ^ Len(fp))
       IN  IF ~wellformed THEN Parsed(FALSE, 0)
           ELSE Parsed(TRUE, IF Head(s) = "-" THEN -num ELSE num)

(***************************************************************************)
(* Package reflect: the setters store a 64-bit value into a slot of the   *)
(* declared width, by a Go conversion (wrap-around for integers, rounding  *)
(* to the nearest float32 for float32).  All integers of the model are     *)
(* below 2^31 in size, so the widths 32 and 64 hold them unchanged.        *)
(***************************************************************************)
Abs(x) == IF x < 0 THEN -x ELSE x

\* intN(x)
WrapInt(x, bits) ==
  IF bits >= 32 THEN x
  ELSE LET m == 2 ^ bits
           r == x % m
       IN  IF r >= m \div 2 THEN r - m ELSE r

\* uintN(x)
WrapUint(x, bits) == IF bits >= 32 THEN x ELSE x % (2 ^ bits)

\* float32(x): round to 24 significant bits, ties to even
RoundFloat32(n) ==
  LET a == Abs(n) IN
  IF a < 2 ^ 24 THEN n
  ELSE LET s == CHOOSE k \in 1..7 : a < 2 ^ (24 + k) /\ a >= 2 ^ (23 + k)
           q == a \div (2 ^ s)
           r == a % (2 ^ s)
           half == 2 ^ (s - 1)
           up == r > half \/ (r = half /\ q % 2 = 1)
           m == (IF up THEN q + 1 ELSE q) * (2 ^ s)
       IN  IF n < 0 THEN -m ELSE m

\* reflect.Value.SetInt
SetInt(t, x) == Val(t, WrapInt(x, Bits(t)))

\* reflect.Value.SetUint
SetUint(t, x) == Val(t, WrapUint(x, Bits(t)))

\* reflect.Value.SetFloat
SetFloat(t, n) == Val(t, IF t = "float32" THEN RoundFloat32(n) ELSE n)

\* int64(f), uint64(f): truncation toward zero
TruncFloat(n) == IF n < 0 THEN -((-n) \div FloatDen) ELSE n \div FloatDen

\* float64(i)
FloatOfInt(i) == i * FloatDen

(***************************************************************************)
(* setFieldValue: the scalar cases of its type switch.  Each takes the     *)
(* slot's content cur (cur.t is the slot's type) and the source datum and  *)
(* yields the error, if any, and the slot's content afterwards.            *)
(***************************************************************************)
Stored(cur) == [ok |-> TRUE, err |-> NoErr, cur |-> cur]

Refused(e, cur) == [ok |-> FALSE, err |-> e, cur |-> cur]

\* case string
fromString(cur, str) ==
  LET t == cur.t IN
  CASE t = "string" -> Stored(Val(t, str))
    [] t = "bool" ->
         LET p == ParseBool(str) IN
         IF ~p.ok THEN Refused(Err("cannot convert %q to bool: %w", str, "", "", p.cause), cur)
         ELSE Stored(Val(t, p.val))
    [] IsInt(t) ->
         LET p == ParseInt(str) IN
         IF ~p.ok THEN Refused(Err("cannot convert %q to int: %w", str, "", "", p.cause), cur)
         ELSE Stored(SetInt(t, p.val))
    [] IsUint(t) ->
         LET p == ParseUint(str) IN
         IF ~p.ok THEN Refused(Err("cannot convert %q to uint: %w", str, "", "", p.cause), cur)
         ELSE Stored(SetUint(t, p.val))
    [] IsFloat(t) ->
         LET p == ParseFloat(str) IN
         IF ~p.ok THEN Refused(Err("cannot convert %q to float: %w", str, "", "", p.cause), cur)
         ELSE Stored(SetFloat(t, p.val))
    [] OTHER -> Refused(Err("unsupported kind %s for string input", <<>>, KindName(t), "", ""), cur)

\* a variant of the bool case that takes true and false for 1 and 0 in an integer slot
fromBoolAsNumber(cur, b) ==
  IF cur.t = "bool" THEN Stored(Val(cur.t, b))
  ELSE IF IsInt(cur.t) THEN Stored(Val(cur.t, IF b THEN 1 ELSE 0))
  ELSE Refused(Err("cannot assign bool to %s", <<>>, KindName(cur.t), "", ""), cur)

\* case bool
fromBool(cur, b) ==
  IF cur.t = "bool" THEN Stored(Val(cur.t, b))
  ELSE Refused(Err("cannot assign bool to %s", <<>>, KindName(cur.t), "", ""), cur)

\* case int, int8, int16, int32, int64
fromInt(cur, i) ==
  LET t == cur.t IN
  CASE IsInt(t) -> Stored(SetInt(t, i))
    [] IsFloat(t) -> Stored(SetFloat(t, FloatOfInt(i)))
    [] IsUint(t) ->
         IF i < 0 THEN Refused(Err("cannot assign negative int to uint", <<>>, "", "", ""), cur)
         ELSE Stored(SetUint(t, i))
    [] OTHER -> Refused(Err("cannot assign int to %s", <<>>, KindName(t), "", ""), cur)

\* case uint, uint8, uint16, uint32, uint64
fromUint(cur, u) ==
  LET t == cur.t IN
  CASE IsUint(t) -> Stored(SetUint(t, u))
    [] IsInt(t) -> Stored(SetInt(t, u))
    [] IsFloat(t) -> Stored(SetFloat(t, FloatOfInt(u)))
    [] OTHER -> Refused(Err("cannot assign uint to %s", <<>>, KindName(t), "", ""), cur)

\* case float32, float64
fromFloat(cur, f) ==
  LET t == cur.t IN
  CASE IsFloat(t) -> Stored(SetFloat(t, f))
    [] IsInt(t) -> Stored(SetInt(t, TruncFloat(f)))
    [] IsUint(t) ->
         IF f < 0 THEN Refused(Err("cannot assign negative float to uint", <<>>, "", "", ""), cur)
         ELSE Stored(SetUint(t, TruncFloat(f)))
    [] OTHER -> Refused(Err("cannot assign float to %s", <<>>, KindName(t), "", ""), cur)

\* the type switch of setFieldValue takes the value
IsScalar(value) ==
  value.t = "string" \/ value.t = "bool" \/ IsInt(value.t) \/ IsUint(value.t) \/ IsFloat(value.t)

\* the type switch on value.(type)
typeSwitch(cur, value) ==
  CASE value.t = "string" -> fromString(cur, value.v)
    [] value.t = "bool" -> fromBool(cur, value.v)
    [] IsInt(value.t) -> fromInt(cur, value.v)
    [] IsUint(value.t) -> fromUint(cur, value.v)
    [] IsFloat(value.t) -> fromFloat(cur, value.v)

(***************************************************************************)
(* The fallback: reflect's AssignableTo and ConvertibleTo for the types of *)
(* the model.  Only slice and map sources get here.                        *)
(***************************************************************************)
AssignableTo(st, dt) == st = dt \/ dt = AnyT

\* []byte converts to string
ConvertibleTo(st, dt) == AssignableTo(st, dt) \/ (st = "[]uint8" /\ dt = "string")

\* string(byte): the digits, which are the bytes the model holds
Chr(b) ==
  IF b \in 48..57 THEN CHOOSE c \in DOMAIN DigitVal : DigitVal[c] = b - 48 ELSE "?"

\* reflect.Value.Convert
Convert(value, dt) ==
  IF dt = AnyT THEN Val(dt, value)
  ELSE IF dt = "string" THEN Val(dt, [i \in 1..Len(value.v.e) |-> Chr(value.v.e[i].v)])
  ELSE value

fallback(cur, value) ==
  IF AssignableTo(value.t, cur.t) THEN Stored(Convert(value, cur.t))
  ELSE IF ConvertibleTo(value.t, cur.t) THEN Stored(Convert(value, cur.t))
  ELSE Refused(Err("cannot assign %T to %s", <<>>, value.t, cur.t, ""), cur)

\* fv.Set(rv) of the fallback copies the header of a slice or a map, so that the
\* slot and the value share the elements
SharedBySet(value, dt) ==
  /\ AssignableTo(value.t, dt)
  /\ \/ IsSlice(value.t) /\ value.v.e # <<>>
     \/ IsMap(value.t) /\ DOMAIN value.v.m # {}

(***************************************************************************)
(* setFieldValue(fieldName, fv, value).  fv is the slot: whether it can be *)
(* set and its content; h is the heap, which reflect.New extends; ord is   *)
(* the order in which this call's range over rv.MapKeys() yields the keys. *)
(* The result is "ok", "err" (an error is returned) or "panic", with the   *)
(* slot's content and the heap afterwards.  Cells allocated by a call that *)
(* does not bind them are garbage and are dropped.                         *)
(***************************************************************************)
Slot(settable, cur) == [settable |-> settable, cur |-> cur]

Result(res, err, cur, h) == [res |-> res, err |-> err, cur |-> cur, h |-> h]

PanicNil == Err("panic: setFieldValue was given nil!", <<>>, "", "", "")

PanicSet == Err("panic: reflect.Value.Set using value obtained using unexported field", <<>>, "", "", "")

RECURSIVE SetToSeq(_)
SetToSeq(S) ==
  IF S = {} THEN <<>>
  ELSE LET x == CHOOSE y \in S : TRUE IN <<x>> \o SetToSeq(S \ {x})

\* rv.MapKeys(): the keys of m, in the order ord gives them
MapKeys(m, ord) ==
  LET keys == SetToSeq(DOMAIN m)
      picks == SelectSeq(ord, LAMBDA k : k <= Len(keys))
  IN  [i \in 1..Len(keys) |-> keys[picks[i]]]

\* the pointer case after the recursive call r into the new cell addr:
\* if err != nil { return err }; fv.Set(ptrVal)
ptrCase(fv, addr, r, h) ==
  IF r.res # "ok" THEN Result(r.res, r.err, fv.cur, h)
  ELSE IF ~fv.settable THEN Result("panic", PanicSet, fv.cur, h)
  ELSE Result("ok", NoErr, Val(fv.cur.t, addr), [r.h EXCEPT ![addr] = r.cur])

\* a variant of the slice case that sets the field to the elements coerced before
\* the one that failed
sliceCasePartial(cur, r, h) ==
  Result(r.res, r.err, Val(cur.t, [nil |-> FALSE, e |-> r.cur]), r.h)

\* the slice case after the loop r over the elements: fv.Set(slice), unless an
\* element returned an error
sliceCase(cur, r, h) ==
  IF r.res # "ok" THEN Result(r.res, r.err, cur, h)
  ELSE Result("ok", NoErr, Val(cur.t, [nil |-> FALSE, e |-> r.cur]), r.h)

\* a variant of the map case that sets the field to the entries coerced before
\* the one that failed
mapCasePartial(cur, r, h) ==
  Result(r.res, r.err, Val(cur.t, [nil |-> FALSE, m |-> r.cur]), r.h)

\* the map case after the loop r over the keys: fv.Set(mp), unless a value
\* returned an error
mapCase(cur, r, h) ==
  IF r.res # "ok" THEN Result(r.res, r.err, cur, h)
  ELSE Result("ok", NoErr, Val(cur.t, [nil |-> FALSE, m |-> r.cur]), r.h)

\* a scalar case or the fallback c, as the result of the call
caseResult(c, h) == Result(IF c.ok THEN "ok" ELSE "err", c.err, c.cur, h)

RECURSIVE setFieldValue(_, _, _, _, _)
RECURSIVE sliceLoop(_, _, _, _, _, _, _)
RECURSIVE sliceStep(_, _, _, _, _, _, _, _)
RECURSIVE mapLoop(_, _, _, _, _, _, _, _)
RECURSIVE mapStep(_, _, _, _, _, _, _, _, _)

\* for i := range rv.Len(): element i goes into slice.Index(i)
sliceLoop(fieldName, et, src, i, acc, h, ord) ==
  IF i > Len(src) THEN Result("ok", NoErr, acc, h)
  ELSE sliceStep(fieldName, et, src, i, acc, h, ord,
                 setFieldValue(fieldName \o "[" \o ToString(i - 1) \o "]",
                               Slot(TRUE, Zero(et)), Interface(src[i]), h, ord))

\* if err := setFieldValue(...); err != nil { return err }, with r the call's result
sliceStep(fieldName, et, src, i, acc, h, ord, r) ==
  IF r.res # "ok" THEN Result(r.res, r.err, acc, h)
  ELSE sliceLoop(fieldName, et, src, i + 1, Append(acc, r.cur), r.h, ord)

\* for _, key := range rv.MapKeys(): the value goes into a new element, then into mp
mapLoop(fieldName, et, src, keys, i, acc, h, ord) ==
  IF i > Len(keys) THEN Result("ok", NoErr, acc, h)
  ELSE mapStep(fieldName, et, src, keys, i, acc, h, ord,
               setFieldValue(fieldName \o "[" \o ToString(keys[i]) \o "]",
                             Slot(TRUE, Zero(et)), Interface(src[keys[i]]), h, ord))

\* if err := setFieldValue(...); err != nil { return err }; mp.SetMapIndex(key, val),
\* with r the call's result
mapStep(fieldName, et, src, keys, i, acc, h, ord, r) ==
  IF r.res # "ok" THEN Result(r.res, r.err, acc, h)
  ELSE mapLoop(fieldName, et, src, keys, i + 1, acc @@ (keys[i] :> r.cur), r.h, ord)

setFieldValue(fieldName, fv, value, h, ord) ==
  LET cur == fv.cur
      t == cur.t
  IN
  IF value.t = "nil" THEN Result("panic", PanicNil, cur, h)
  ELSE IF IsPtr(t) THEN
    \* ptrVal := reflect.New(fv.Type().Elem())
    ptrCase(fv, Len(h) + 1,
            setFieldValue(fieldName, Slot(TRUE, Zero(Elem(t))), value,
                          Append(h, Zero(Elem(t))), ord), h)
  ELSE IF ~fv.settable THEN
    Result("err", Err("field %s is not settable", <<>>, fieldName, "", ""), cur, h)
  ELSE IF IsScalar(value) THEN
    caseResult(typeSwitch(cur, value), h)
  ELSE IF IsSlice(t) /\ IsSlice(value.t) THEN
    sliceCase(cur, sliceLoop(fieldName, Elem(t), value.v.e, 1, <<>>, h, ord), h)
  ELSE IF IsMap(t) /\ IsMap(value.t) THEN
    IF MapKey[t] # MapKey[value.t] THEN
      Result("err", Err("cannot assign map with key type %s to map with key type %s",
                        <<>>, MapKey[value.t], MapKey[t], ""), cur, h)
    ELSE IF MapElem[t] # MapElem[value.t] THEN
      Result("err", Err("cannot assign map with value type %s to map with value type %s",
                        <<>>, MapElem[value.t], MapElem[t], ""), cur, h)
    ELSE
      mapCase(cur, mapLoop(fieldName, Elem(t), value.v.m, MapKeys(value.v.m, ord), 1, <<>>,
                           h, ord), h)
  ELSE
    caseResult(fallback(cur, value), h)

(***************************************************************************)
(* Record types.  A struct type is the sequence of its fields, in          *)
(* declaration order; a tag that is not set is "".                         *)
(***************************************************************************)
Field(name, type, form, query, json, binding, exported) ==
  [name |-> name, type |-> type, form |-> form, query |-> query, json |-> json,
   binding |-> binding, exported |-> exported]

\* var obj T: every field at its zero value
ZeroRecord(fields) == [i \in 1..Len(fields) |-> Zero(fields[i].type)]

\* reflect.ValueOf(obj).Elem().Field(i): settable iff the field is exported
FieldSlot(fields, i, r) == Slot(fields[i].exported, r[i])

(***************************************************************************)
(* validateRequired(writtenFields, obj)                                    *)
(***************************************************************************)
RECURSIVE validateRequiredFrom(_, _, _)
validateRequiredFrom(writtenFields, fields, i) ==
  IF i > Len(fields) THEN NoErr
  ELSE IF fields[i].binding # "required" THEN validateRequiredFrom(writtenFields, fields, i + 1)
  ELSE IF fields[i].name \notin writtenFields
       THEN Err("%s is required", <<>>, fields[i].name, "", "")
       ELSE validateRequiredFrom(writtenFields, fields, i + 1)

\* a variant that reports the last required field that was not written
validateRequiredLast(writtenFields, fields) ==
  LET missing == {i \in 1..Len(fields) :
                    fields[i].binding = "required" /\ fields[i].name \notin writtenFields}
  IN  IF missing = {} THEN NoErr
      ELSE Err("%s is required", <<>>,
               fields[CHOOSE i \in missing : \A j \in missing : j <= i].name, "", "")

validateRequired(writtenFields, fields) == validateRequiredFrom(writtenFields, fields, 1)

(***************************************************************************)
(* The three sources.  src.ok says whether the request could be parsed     *)
(* (r.ParseForm, json Decode); src.m maps the keys present to their values:*)
(* a list of strings for a form and a query, a decoded JSON value for JSON.*)
(***************************************************************************)
PanicPresent == Err("panic: how is this present?", <<>>, "", "", "")

ErrMalformed == Err("malformed source", <<>>, "", "", "")

\* a variant that falls back on the form tag before the declared name
TagOfOther(f, tagKey) ==
  IF f[tagKey] # "" THEN f[tagKey] ELSE IF f.form # "" THEN f.form ELSE f.name

\* tag := f.Tag.Get(tagKey); if tag == "" { tag = f.Name }
TagOf(f, tagKey) == IF f[tagKey] = "" THEN f.name ELSE f[tagKey]

\* a variant that takes the last value
GetLast(m, tag) == IF tag \notin DOMAIN m \/ m[tag] = <<>> THEN <<>> ELSE m[tag][Len(m[tag])]

\* url.Values.Get: the first value, "" if there is none
Get(m, tag) == IF tag \notin DOMAIN m \/ m[tag] = <<>> THEN <<>> ELSE m[tag][1]

\* What each entry point's callback finds under tag: nothing ("absent"), a
\* value to coerce ("found"), or the form's impossible empty list ("empty").
Lookup(kind, value) == [kind |-> kind, value |-> value]

\* a variant of the form lookup that reads an absent name as the empty string
formLookupEmpty(m, tag) ==
  IF tag \notin DOMAIN m THEN Lookup("found", Val("string", <<>>))
  ELSE IF Len(m[tag]) = 0 THEN Lookup("empty", NilV)
  ELSE Lookup("found", Val("string", m[tag][1]))

\* values, present := r.Form[tag]; value := values[0]
formLookup(m, tag) ==
  IF tag \notin DOMAIN m THEN Lookup("absent", NilV)
  ELSE IF Len(m[tag]) = 0 THEN Lookup("empty", NilV)
  ELSE Lookup("found", Val("string", m[tag][1]))

\* value, present := q.Get(tag), q.Has(tag)
queryLookup(m, tag) ==
  IF tag \notin DOMAIN m THEN Lookup("absent", NilV)
  ELSE Lookup("found", Val("string", Get(m, tag)))

\* value, ok := data[tag]
jsonLookup(m, tag) ==
  IF tag \notin DOMAIN m THEN Lookup("absent", NilV)
  ELSE Lookup("found", m[tag])

lookup(tagKey, m, tag) ==
  CASE tagKey = "form" -> formLookup(m, tag)
    [] tagKey = "query" -> queryLookup(m, tag)
    [] tagKey = "json" -> jsonLookup(m, tag)

\* a variant of the callback's body that takes an empty string for an absent name
foundNonEmpty(l, field, fv, h, ord) ==
  CASE l.kind = "absent" -> Result("skip", NoErr, fv.cur, h)
    [] l.kind = "empty" -> Result("panic", PanicPresent, fv.cur, h)
    [] l.kind = "found" ->
         IF l.value.t = "string" /\ l.value.v = <<>> THEN Result("skip", NoErr, fv.cur, h)
         ELSE setFieldValue(field.name, fv, l.value, h, ord)

\* the callback's body after the lookup l.  "skip": nothing is written
found(l, field, fv, h, ord) ==
  CASE l.kind = "absent" -> Result("skip", NoErr, fv.cur, h)
    [] l.kind = "empty" -> Result("panic", PanicPresent, fv.cur, h)
    [] l.kind = "found" -> setFieldValue(field.name, fv, l.value, h, ord)

\* fn(f, v.Field(i), tag), for the entry point that uses tagKey
callback(tagKey, m, field, fv, tag, h, ord) == found(lookup(tagKey, m, tag), field, fv, h, ord)

Walked(res, err, r, h, written) == [res |-> res, err |-> err, rec |-> r, h |-> h, written |-> written]

RECURSIVE forEachFieldFrom(_, _, _, _, _, _, _, _)
RECURSIVE fieldDone(_, _, _, _, _, _, _, _, _)

\* forEachField(obj, tagKey, fn), from field i on, with the callback's writtenFields
forEachFieldFrom(fields, tagKey, m, i, r, h, written, ord) ==
  IF i > Len(fields) THEN Walked("ok", NoErr, r, h, written)
  ELSE fieldDone(fields, tagKey, m, i, r, h, written, ord,
                 callback(tagKey, m, fields[i], FieldSlot(fields, i, r),
                          TagOf(fields[i], tagKey), h, ord))

\* if err := fn(f, v.Field(i), tag); err != nil { return err }, with c the callback's result
fieldDone(fields, tagKey, m, i, r, h, written, ord, c) ==
  CASE c.res = "skip" -> forEachFieldFrom(fields, tagKey, m, i + 1, r, h, written, ord)
    [] c.res = "ok" ->
         forEachFieldFrom(fields, tagKey, m, i + 1, [r EXCEPT ![i] = c.cur], c.h,
                          written \cup {fields[i].name}, ord)
    [] OTHER -> Walked(c.res, c.err, r, h, written)

RECURSIVE forEachFieldOn(_, _, _, _, _, _, _, _, _)
RECURSIVE fieldDoneOn(_, _, _, _, _, _, _, _, _, _)

\* a variant of the walk that goes on after a callback's error and returns the
\* first error at the end
forEachFieldOn(fields, tagKey, m, i, r, h, written, ord, first) ==
  IF i > Len(fields) THEN Walked(IF first = NoErr THEN "ok" ELSE "err", first, r, h, written)
  ELSE fieldDoneOn(fields, tagKey, m, i, r, h, written, ord, first,
                   callback(tagKey, m, fields[i], FieldSlot(fields, i, r),
                            TagOf(fields[i], tagKey), h, ord))

fieldDoneOn(fields, tagKey, m, i, r, h, written, ord, first, c) ==
  CASE c.res = "skip" -> forEachFieldOn(fields, tagKey, m, i + 1, r, h, written, ord, first)
    [] c.res = "ok" ->
         forEachFieldOn(fields, tagKey, m, i + 1, [r EXCEPT ![i] = c.cur], c.h,
                        written \cup {fields[i].name}, ord, first)
    [] c.res = "err" ->
         forEachFieldOn(fields, tagKey, m, i + 1, r, h, written, ord,
                        IF first = NoErr THEN c.err ELSE first)
    [] OTHER -> Walked(c.res, c.err, r, h, written)

forEachFieldKeepGoing(fields, tagKey, m, r, h, ord) ==
  forEachFieldOn(fields, tagKey, m, 1, r, h, {}, ord, NoErr)

forEachField(fields, tagKey, m, r, h, ord) == forEachFieldFrom(fields, tagKey, m, 1, r, h, {}, ord)

\* the outcome of an entry point: that of the walk, and whether validateRequired ran
Outcome(w, ran) == w @@ [validated |-> ran]

\* a variant of the end of an entry point that checks the required fields whatever
\* the resolution returned, and reports a missing field first
afterWalkValidateFirst(fields, w, e) ==
  IF w.res = "panic" THEN Outcome(w, FALSE)
  ELSE IF e # NoErr THEN Outcome(Walked("err", e, w.rec, w.h, w.written), TRUE)
  ELSE Outcome(w, TRUE)

\* if err != nil { return err }; return validateRequired(writtenFields, obj),
\* with w the walk's outcome and e what validateRequired returns for it
afterWalk(fields, w, e) ==
  IF w.res # "ok" THEN Outcome(w, FALSE)
  ELSE Outcome(Walked(IF e = NoErr THEN "ok" ELSE "err", e, w.rec, w.h, w.written), TRUE)

\* the walk w and the check of the fields it wrote
walkAndValidate(fields, w) == afterWalk(fields, w, validateRequired(w.written, fields))

\* a variant of the entry points that goes on with what was decoded when the
\* request could not be parsed
BindUndecoded(fields, tagKey, src, r, h, ord) ==
  walkAndValidate(fields, forEachField(fields, tagKey, src.m, r, h, ord))

\* BindForm, BindQuery and BindJSON differ in tagKey and in the callback's lookup only
Bind(fields, tagKey, src, r, h, ord) ==
  IF ~src.ok THEN Outcome(Walked("err", ErrMalformed, r, h, {}), FALSE)
  ELSE walkAndValidate(fields, forEachField(fields, tagKey, src.m, r, h, ord))

(***************************************************************************)
(* The inputs of the model.                                                *)
(***************************************************************************)
\* the most keys a map of the model holds
MaxMapKeys == 2

\* the orders in which a range over a map may yield its keys
Orders == {p \in [1..MaxMapKeys -> 1..MaxMapKeys] : \A i, j \in 1..MaxMapKeys : p[i] = p[j] => i = j}

NoOrder == [i \in 1..MaxMapKeys |-> i]

\* only a map of several keys has more than one order
OrdersOf(value) ==
  IF IsMap(value.t) /\ Cardinality(DOMAIN value.v.m) > 1 THEN Orders ELSE {NoOrder}

Str(s) == Val("string", s)

Num(n) == Val("float64", n * FloatDen)

SliceOf(t, e) == Val(t, [nil |-> FALSE, e |-> e])

MapOf(t, m) == Val(t, [nil |-> FALSE, m |-> m])

\* the record type the entry points bind into
InputT ==
  << Field("Name", "string", "name", "item", "title", "required", TRUE),
     Field("Age", "int8", "age", "id", "", "", TRUE),
     Field("Code", "*uint8", "code", "code", "code", "required", TRUE) >>

\* the value lists a form or a query may hold for a field of type t
StringLists(t) ==
  CASE t = "string" -> {<< <<"A">> >>, << <<>> >>}
    [] t = "int8" -> {<< <<"7">> >>, << <<"x">> >>, << <<"4", "2">>, <<"x">> >>}
    [] t = "*uint8" -> {<< <<"9">> >>, << <<"-", "1">> >>}

\* the values a JSON object may hold for a field of type t
JSONValues(t) ==
  CASE t = "string" -> {Str(<<"A">>)}
    [] t = "int8" -> {Num(7), Str(<<"x">>), NilV}
    [] t = "*uint8" -> {Num(9), Num(-1)}

ValuesFor(tagKey, t) == IF tagKey = "json" THEN JSONValues(t) ELSE StringLists(t)

\* every mapping that gives some of the first i fields a value, under their names for tagKey
RECURSIVE Mappings(_, _, _)
Mappings(fields, tagKey, i) ==
  IF i = 0 THEN {<<>>}
  ELSE LET rest == Mappings(fields, tagKey, i - 1)
       IN  rest \cup {m @@ (TagOf(fields[i], tagKey) :> x) :
                        m \in rest, x \in ValuesFor(tagKey, fields[i].type)}

\* a key that names no field
ExtraKey(tagKey) == IF tagKey = "json" THEN ("extra" :> Str(<<"x">>)) ELSE ("extra" :> << <<"x">> >>)

\* a key that is a name of a field for another entry point: the query name of Name
\* in a form, the form name of Age in a query and in a JSON object
CrossKey(tagKey) ==
  CASE tagKey = "form" -> ("item" :> << <<"B">> >>)
    [] tagKey = "query" -> ("age" :> << <<"5">> >>)
    [] tagKey = "json" -> ("age" :> Val("float64", 5 * FloatDen))

Source(ok, m) == [ok |-> ok, m |-> m]

Sources(fields, tagKey) ==
  LET ms == Mappings(fields, tagKey, Len(fields))
  IN  {Source(TRUE, m) : m \in ms} \cup {Source(TRUE, m @@ ExtraKey(tagKey)) : m \in ms}
        \cup {Source(TRUE, m @@ CrossKey(tagKey)) : m \in ms}

\* a request that could not be parsed
Malformed == Source(FALSE, <<>>)

\* r.ParseForm() may fail
FormSources == Sources(InputT, "form") \cup {Malformed}

\* r.URL.Query() has no error to return
QuerySources == Sources(InputT, "query")

\* Decode(&data) may fail
JSONSources == Sources(InputT, "json") \cup {Malformed}

\* the slot types and the source values of direct calls of setFieldValue
SlotTypes ==
  {"string", "bool", AnyT} \cup SignedTypes \cup UnsignedTypes \cup FloatTypes
    \cup DOMAIN PtrElem \cup DOMAIN SliceElem \cup DOMAIN MapKey

\* the types whose slot is also tried as an unexported field
UnexportedTypes == {"int", "*int", "**int", "[]int", "map[string]int"}

Values ==
  { Str(<<>>), Str(<<"4", "2">>), Str(<<"-", "2">>), Str(<<"+", "5">>), Str(<<"3", "0", "0">>),
    Str(<<"2", ".", "5">>), Str(<<"t", "r", "u", "e">>), Str(<<"x">>),
    Val("bool", TRUE), Val("bool", FALSE),
    Val("int", -2), Val("int", 5), Val("int", 300), Val("int64", 70000), Val("int8", -128),
    Val("int", 16777217),
    Val("uint", 9), Val("uint", 300), Val("uint8", 200),
    Val("float64", 23), Val("float64", -2), Val("float64", 1200), Val("float32", 6),
    SliceOf("[]int", <<Val("int", 1), Val("int", 300)>>),
    SliceOf("[]int", <<>>),
    SliceOf("[]string", <<Str(<<"1">>), Str(<<"a">>), Str(<<"b">>)>>),
    SliceOf("[]uint8", <<Val("uint8", 52), Val("uint8", 50)>>),
    SliceOf("[]interface {}", <<Val(AnyT, Num(4)), Val(AnyT, Str(<<"7">>))>>),
    SliceOf("[]interface {}", <<Val(AnyT, Num(4)), Val(AnyT, NilV), Val(AnyT, Str(<<"a">>))>>),
    MapOf("map[string]int", ("a" :> Val("int", 1)) @@ ("b" :> Val("int", 300))),
    MapOf("map[string]string", <<>>),
    MapOf("map[int]int", (1 :> Val("int", 2))),
    MapOf("map[string]interface {}",
          ("a" :> Val(AnyT, Str(<<"x">>))) @@ ("b" :> Val(AnyT, Val("bool", TRUE)))),
    MapOf("map[string]interface {}",
          ("a" :> Val(AnyT, SliceOf("[]interface {}", <<>>))) @@ ("b" :> Val(AnyT, NilV))),
    MapOf("map[string]interface {}", ("a" :> Val(AnyT, SliceOf("[]interface {}", <<>>)))),
    MapOf("map[string]interface {}", ("a" :> Val(AnyT, Str(<<"x">>))) @@ ("b" :> Val(AnyT, NilV))),
    MapOf("map[string]interface {}", ("a" :> Val(AnyT, Num(4)))),
    NilV }

(***************************************************************************)
(* The state: the record type T of obj, the record rec, the heap its       *)
(* pointers point into, and the last call with what it was given, the      *)
(* record and the heap before it and what it returned.                     *)
(***************************************************************************)
Call(op, tagKey, src, field, value, ord, res, err, written, validated) ==
  [op |-> op, tagKey |-> tagKey, src |-> src, field |-> field, value |-> value, ord |-> ord,
   pre |-> rec, preHeap |-> heap,
   res |-> res, err |-> err, written |-> written, validated |-> validated]

NoCall == Call("none", "", Malformed, 0, NilV, NoOrder, "ok", NoErr, {}, FALSE)

Init ==
  /\ T = InputT
  /\ rec = ZeroRecord(T)
  /\ heap = <<>>
  /\ last = NoCall
  /\ calls = 0
  /\ OnlyBind

\* err := BindXxx(r, &obj)
Returned(op, tagKey, src, b) ==
  /\ calls < MaxCalls
  /\ calls' = calls + 1
  /\ Len(b.h) <= MaxHeap
  /\ rec' = b.rec
  /\ heap' = b.h
  /\ last' = Call(op, tagKey, src, 0, NilV, NoOrder, b.res, b.err, b.written, b.validated)
  /\ UNCHANGED <<T, notBind>>

BindCall(op, tagKey, src) == Returned(op, tagKey, src, Bind(T, tagKey, src, rec, heap, NoOrder))

BindForm == \E src \in FormSources : BindCall("BindForm", "form", src)

BindQuery == \E src \in QuerySources : BindCall("BindQuery", "query", src)

BindJSON == \E src \in JSONSources : BindCall("BindJSON", "json", src)

Next == BindForm \/ BindQuery \/ BindJSON

Spec == Init /\ [][Next]_vars

\* a direct call setFieldValue(field, sf, value) on the only field of a one-field record
CoerceInit ==
  /\ T \in {<<Field("F", t, "", "", "", "", TRUE)>> : t \in SlotTypes}
            \cup {<<Field("f", t, "", "", "", "", FALSE)>> : t \in UnexportedTypes}
  /\ rec = ZeroRecord(T)
  /\ heap = <<>>
  /\ last = NoCall
  /\ calls = 0
  /\ OnlyBind

Coerce(i, value, ord, r) ==
  /\ calls < MaxCalls
  /\ calls' = calls + 1
  /\ Len(r.h) <= MaxHeap
  /\ rec' = [rec EXCEPT ![i] = r.cur]
  /\ heap' = r.h
  /\ last' = Call("setFieldValue", "", Malformed, i, value, ord, r.res, r.err, {}, FALSE)
  /\ UNCHANGED <<T, notBind>>

SetFieldValue ==
  \E i \in 1..Len(T), value \in Values :
    \E ord \in OrdersOf(value) :
      Coerce(i, value, ord, setFieldValue(T[i].name, FieldSlot(T, i, rec), value, heap, ord))

CoerceNext == SetFieldValue

CoerceSpec == CoerceInit /\ [][CoerceNext]_vars

(***************************************************************************)
(* Properties.  They speak of the last call: what it was given (last), the *)
(* record and the heap before it (last.pre, last.preHeap) and after it     *)
(* (rec, heap).                                                            *)
(***************************************************************************)
\* the value x stands for, with every pointer followed into the heap h
RECURSIVE Deep(_, _)
Deep(h, x) ==
  CASE IsPtr(x.t) -> IF x.v = 0 THEN Val(x.t, <<>>) ELSE Val(x.t, <<Deep(h, h[x.v])>>)
    [] IsSlice(x.t) ->
         Val(x.t, [nil |-> x.v.nil, e |-> [j \in 1..Len(x.v.e) |-> Deep(h, x.v.e[j])]])
    [] IsMap(x.t) ->
         Val(x.t, [nil |-> x.v.nil, m |-> [k \in DOMAIN x.v.m |-> Deep(h, x.v.m[k])]])
    [] x.t = AnyT -> Val(x.t, Deep(h, x.v))
    [] OTHER -> x

\* the last call was a direct call of setFieldValue
Coerced == last.op = "setFieldValue"

SlotType == T[last.field].type

Settable == T[last.field].exported

Before == last.pre[last.field]

After == rec[last.field]

\* the call left the slot and all it points to as they were
SlotUntouched == After = Before /\ Deep(heap, After) = Deep(last.preHeap, Before)

\* value into a new, settable slot of type t, on its own
Alone(t, value) == setFieldValue("", Slot(TRUE, Zero(t)), value, <<>>, last.ord)

\* the number a numeric value stands for, in units of 1 / FloatDen
Quantity(x) == IF IsFloat(x.t) THEN x.v ELSE x.v * FloatDen

IsNumeric(t) == IsInt(t) \/ IsUint(t) \/ IsFloat(t)

Min(S) == CHOOSE x \in S : \A y \in S : x <= y

\* C4: into a pointer-to-T field, a non-nil value that coerces into a bare T with
\* result r succeeds and leaves the pointer at r; a value that a bare T refuses is
\* refused with the same error and the pointer keeps its prior value.
C4_PointerAsBare ==
  (Coerced /\ IsPtr(SlotType) /\ last.value.t # "nil") =>
    LET bare == Alone(Elem(SlotType), last.value) IN
    /\ bare.res = "ok" =>
         /\ last.res = "ok"
         /\ After.v # 0
         /\ Deep(heap, heap[After.v]) = Deep(bare.h, bare.cur)
    /\ bare.res = "err" =>
         /\ last.res = "err"
         /\ last.err = bare.err
         /\ SlotUntouched

\* C5: a string that parses as a base-10 integer, into a slot of any integer kind
\* (an unsigned one when the integer is not negative), succeeds and the slot then
\* holds exactly the parsed integer.
C5_ParsedIntegerRoundTrip ==
  (Coerced /\ Settable /\ last.value.t = "string" /\ ParseInt(last.value.v).ok
     /\ (IsInt(SlotType) \/ (IsUint(SlotType) /\ ParseInt(last.value.v).val >= 0))) =>
    /\ last.res = "ok"
    /\ After.v = ParseInt(last.value.v).val

\* C6: a signed integer into an unsigned slot of any width: a non-negative one
\* succeeds and is stored exactly, a negative one is refused with the
\* negative-to-unsigned error and the slot is left as it was.
C6_SignedIntoUnsigned ==
  (Coerced /\ Settable /\ IsInt(last.value.t) /\ IsUint(SlotType)) =>
    /\ last.value.v >= 0 => (last.res = "ok" /\ After.v = last.value.v)
    /\ last.value.v < 0 =>
         /\ last.res = "err"
         /\ last.err.msg = "cannot assign negative int to uint"
         /\ SlotUntouched

\* C7: a numeric value into a numeric slot of any kind and width: when the call
\* succeeds the slot holds a number equal to the source, and otherwise an error
\* is returned.
C7_NoSilentLoss ==
  (Coerced /\ IsNumeric(last.value.t) /\ IsNumeric(SlotType)) =>
    /\ last.res \in {"ok", "err"}
    /\ last.res = "ok" => Quantity(After) = Quantity(last.value)

\* the elements of the last call's slice source that do not coerce on their own
BadElems ==
  {j \in 1..Len(last.value.v.e) : Alone(Elem(SlotType), Interface(last.value.v.e[j])).res # "ok"}

\* C8: a slice into a slice field is all or nothing: when an element is refused
\* the slot keeps its prior contents and that element's error is returned; on
\* success the slot has the source's length and element j is the coercion of the
\* source's element j.
C8_SliceAllOrNothing ==
  (Coerced /\ IsSlice(SlotType) /\ IsSlice(last.value.t)) =>
    LET src == last.value.v.e
        elem(j) == Alone(Elem(SlotType), Interface(src[j]))
    IN  /\ last.res # "ok" => SlotUntouched /\ heap = last.preHeap
        /\ (Settable /\ BadElems = {}) => last.res = "ok"
        /\ (Settable /\ BadElems # {} /\ elem(Min(BadElems)).res = "err") =>
             (last.res = "err" /\ last.err = elem(Min(BadElems)).err)
        /\ last.res = "ok" =>
             /\ ~After.v.nil
             /\ Len(After.v.e) = Len(src)
             /\ \A j \in 1..Len(src) :
                  Deep(heap, After.v.e[j]) = Deep(elem(j).h, elem(j).cur)

\* a slice field that held elements refused a slice whose first element coerces and
\* whose second does not
C8_Witness ==
  /\ Coerced /\ IsSlice(SlotType) /\ IsSlice(last.value.t)
  /\ last.res = "err"
  /\ Len(Before.v.e) > 0
  /\ Min(BadElems) = 2
  /\ Cardinality(BadElems) > 1

\* the keys of the last call's map source whose value does not coerce on its own
BadKeys ==
  {k \in DOMAIN last.value.v.m : Alone(Elem(SlotType), Interface(last.value.v.m[k])).res # "ok"}

\* C9: a map into a map field is all or nothing: a key type mismatch, a value type
\* mismatch or a value that is refused leaves the slot as it was and returns an
\* error; on success the slot holds exactly the source's keys, each with the
\* coercion of its source value.
C9_MapAllOrNothing ==
  (Coerced /\ IsMap(SlotType) /\ IsMap(last.value.t)) =>
    LET src == last.value.v.m
        val(k) == Alone(Elem(SlotType), Interface(src[k]))
        mismatch == MapKey[SlotType] # MapKey[last.value.t]
                      \/ MapElem[SlotType] # MapElem[last.value.t]
    IN  /\ last.res # "ok" => SlotUntouched /\ heap = last.preHeap
        /\ (Settable /\ mismatch) => last.res = "err"
        /\ (Settable /\ ~mismatch /\ BadKeys # {} /\ \A q \in BadKeys : val(q).res = "err") =>
             (last.res = "err" /\ \E k \in BadKeys : last.err = val(k).err)
        /\ (Settable /\ ~mismatch /\ BadKeys = {}) => last.res = "ok"
        /\ last.res = "ok" =>
             /\ ~After.v.nil
             /\ DOMAIN After.v.m = DOMAIN src
             /\ \A k \in DOMAIN src : Deep(heap, After.v.m[k]) = Deep(val(k).h, val(k).cur)

\* a map field that held entries refused a map of the same type one of whose values
\* does not coerce
C9_Witness ==
  /\ Coerced /\ IsMap(SlotType) /\ SlotType = last.value.t
  /\ last.res = "err"
  /\ DOMAIN Before.v.m # {}
  /\ BadKeys # {}

\* the last call was one of the three entry points, on a request that parsed
Bound == last.op \in {"BindForm", "BindQuery", "BindJSON"} /\ last.src.ok

\* field i's external name is in the source
Present(i) == TagOf(T[i], last.tagKey) \in DOMAIN last.src.m

\* the entry point's callback on field i alone, from the record as it was
FieldAlone(i) ==
  callback(last.tagKey, last.src.m, T[i], FieldSlot(T, i, last.pre),
           TagOf(T[i], last.tagKey), last.preHeap, NoOrder)

\* the fields whose name is present and whose value is not taken
Stops == {i \in 1..Len(T) : Present(i) /\ FieldAlone(i).res # "ok"}

\* the walk reaches a field whose coercion returns an error
CoercionFails == Bound /\ Stops # {} /\ FieldAlone(Min(Stops)).res = "err"

\* field j and what it points to are as before the call
Untouched(j) == rec[j] = last.pre[j] /\ Deep(heap, rec[j]) = Deep(last.preHeap, last.pre[j])

\* field j holds the coercion of its value
Written(j) == Deep(heap, rec[j]) = Deep(FieldAlone(j).h, FieldAlone(j).cur)

IsRequired(i) == T[i].binding = "required"

\* C1: the fields are resolved in declaration order and the first coercion that
\* fails, at field k, ends the call with that error: the fields before k that are
\* present hold their newly coerced values, field k is unchanged and no field
\* after k is written.
C1_FailFast ==
  CoercionFails =>
    LET k == Min(Stops) IN
    /\ last.res = "err"
    /\ last.err = FieldAlone(k).err
    /\ \A j \in 1..(k - 1) : IF Present(j) THEN Written(j) ELSE Untouched(j)
    /\ \A j \in k..Len(T) : Untouched(j)

\* the second field, which held a value, was refused; the first field was present
\* and changed, the third was present too, would have been taken, and was not written
C1_Witness ==
  /\ CoercionFails
  /\ Min(Stops) = 2
  /\ last.pre[2].v # 0
  /\ Present(1) /\ rec[1] # last.pre[1]
  /\ Present(3) /\ FieldAlone(3).res = "ok" /\ Deep(last.preHeap, last.pre[3]) # Deep(FieldAlone(3).h, FieldAlone(3).cur)

\* the required fields that are not in the written set of the last call
Missing == {i \in 1..Len(T) : IsRequired(i) /\ T[i].name \notin last.written}

\* C2: the required-field check fails on the first required field, in declaration
\* order, that is not in the written set, naming that field alone, and succeeds
\* iff every required field is in the written set.
C2_FirstMissingNamed ==
  (Bound /\ last.validated) =>
    /\ (Missing = {}) <=> (last.res = "ok")
    /\ Missing # {} =>
         (last.res = "err" /\ last.err = Err("%s is required", <<>>, T[Min(Missing)].name, "", ""))

\* two required fields are missing, with a written field between them
C2_Witness ==
  /\ Bound /\ last.validated
  /\ Cardinality(Missing) = 2
  /\ \E i \in 1..Len(T) : Min(Missing) < i /\ T[i].name \in last.written
  /\ last.err.a = T[Min(Missing)].name

\* C3: the required-field check runs only after a resolution without error: when a
\* coercion fails and a required field is omitted, before or after the failing
\* field, the call returns the coercion error and not the missing-field error.
C3_CoercionErrorFirst ==
  (CoercionFails /\ \E i \in 1..Len(T) : IsRequired(i) /\ ~Present(i)) =>
    /\ last.res = "err"
    /\ ~last.validated
    /\ last.err.msg # "%s is required"
    /\ last.err = FieldAlone(Min(Stops)).err

\* a coercion failed with one required field omitted before it and one after it
C3_Witness ==
  /\ CoercionFails
  /\ \E i \in 1..Len(T) : i < Min(Stops) /\ IsRequired(i) /\ ~Present(i)
  /\ \E i \in 1..Len(T) : i > Min(Stops) /\ IsRequired(i) /\ ~Present(i)
  /\ last.res = "err"

\* the source of the last call without the keys that name no field
Trimmed ==
  LET names == {TagOf(T[i], last.tagKey) : i \in 1..Len(T)}
  IN  Source(TRUE, [k \in DOMAIN last.src.m \cap names |-> last.src.m[k]])

\* C10: a field whose external name is absent from the source is skipped: it keeps
\* the value it had and is not in the written set; and the keys that name no field
\* change nothing: the call ends as it does without them.
C10_AbsentSkipped ==
  Bound =>
    /\ \A i \in 1..Len(T) : ~Present(i) => (Untouched(i) /\ T[i].name \notin last.written)
    /\ LET b == Bind(T, last.tagKey, Trimmed, last.pre, last.preHeap, NoOrder)
       IN  /\ b.res = last.res
           /\ b.err = last.err
           /\ b.rec = rec
           /\ b.h = heap
           /\ b.written = last.written

\* a call that returned no error, whose source held a key that names no field and
\* lacked the name of a field that held a value
C10_Witness ==
  /\ Bound /\ last.res = "ok"
  /\ DOMAIN Trimmed.m # DOMAIN last.src.m
  /\ \E i \in 1..Len(T) : ~Present(i) /\ last.pre[i] # Zero(T[i].type)

\* the name the claim gives field i for the entry point of the last call: the tag
\* of that entry point's kind when it is set, the declared name otherwise
ExternalName(i) ==
  CASE last.op = "BindForm" -> IF T[i].form # "" THEN T[i].form ELSE T[i].name
    [] last.op = "BindQuery" -> IF T[i].query # "" THEN T[i].query ELSE T[i].name
    [] last.op = "BindJSON" -> IF T[i].json # "" THEN T[i].json ELSE T[i].name

\* the coercion of what the source holds under the name n into field i, alone
Under(n, i) ==
  found(lookup(last.tagKey, last.src.m, n), T[i], FieldSlot(T, i, last.pre), last.preHeap, NoOrder)

\* C11: a field is looked up under the tag of the entry point's own kind when that
\* tag is set and under its declared name otherwise, and under nothing else: after a
\* call without error a field whose external name is in the source holds the
\* coercion of the value under that name, and a field whose external name is not
\* in the source is untouched whatever other keys the source holds.
C11_ExternalName ==
  Bound =>
    \A i \in 1..Len(T) :
      IF ExternalName(i) \in DOMAIN last.src.m
      THEN last.res = "ok" =>
             /\ T[i].name \in last.written
             /\ Deep(heap, rec[i]) = Deep(Under(ExternalName(i), i).h, Under(ExternalName(i), i).cur)
      ELSE Untouched(i) /\ T[i].name \notin last.written

\* a JSON call without error wrote Age from the key "Age", its declared name, while
\* the object also held the key "age", its form name, with another value; Name was
\* written from "title"
C11_Witness ==
  /\ Bound /\ last.op = "BindJSON" /\ last.res = "ok"
  /\ {"Age", "age", "title"} \subseteq DOMAIN last.src.m
  /\ last.src.m["Age"] # last.src.m["age"]
  /\ rec[2] = Val("int8", 7)
  /\ last.written = {"Name", "Age", "Code"}

\* the outcome b is that of the last call
SameOutcome(b) ==
  /\ b.res = last.res
  /\ b.err = last.err
  /\ b.rec = rec
  /\ b.h = heap
  /\ b.written = last.written

\* the form or query m with every list of values cut down to its first value
FirstOnly(m) == [k \in DOMAIN m |-> IF Len(m[k]) > 1 THEN <<m[k][1]>> ELSE m[k]]

\* the keys of the last call's source that hold several values
Several == {k \in DOMAIN last.src.m : Len(last.src.m[k]) > 1}

\* C12: BindForm and BindQuery coerce only the first of several values under a
\* name: the record, the written set and the error are those of the same call on
\* the source without the later values.
C12_FirstValueOnly ==
  (Bound /\ last.op \in {"BindForm", "BindQuery"}) =>
    SameOutcome(Bind(T, last.tagKey, Source(TRUE, FirstOnly(last.src.m)), last.pre,
                     last.preHeap, NoOrder))

\* a query whose second value for Age would not coerce was bound without error and
\* Age holds the first value
C12_Witness ==
  /\ Bound /\ last.op = "BindQuery" /\ last.res = "ok"
  /\ "id" \in Several
  /\ ~ParseInt(last.src.m["id"][2]).ok
  /\ rec[2] = Val("int8", ParseInt(last.src.m["id"][1]).val)
  /\ rec[2] # last.pre[2]

\* the fields the walk of the last call reached whose value was taken
Taken ==
  {i \in 1..Len(T) : Present(i) /\ FieldAlone(i).res = "ok" /\ \A k \in Stops : i < k}

\* C13: a bind call returns no error exactly when every field whose name is
\* present coerces and every required field's name is present; the written set
\* holds the fields whose name was present and whose coercion succeeded, so that a
\* required field is satisfied by its presence, whatever its value.
C13_NoErrorIff ==
  Bound =>
    /\ (last.res = "ok") <=>
         /\ \A i \in 1..Len(T) : Present(i) => FieldAlone(i).res = "ok"
         /\ \A i \in 1..Len(T) : IsRequired(i) => Present(i)
    /\ last.written = {T[i].name : i \in Taken}

\* a form whose required Name is present with the empty string was bound without
\* error: Name is in the written set and holds the empty string
C13_Witness ==
  /\ Bound /\ last.op = "BindForm" /\ last.res = "ok"
  /\ last.src.m["name"] = << <<>> >>
  /\ IsRequired(1) /\ "Name" \in last.written
  /\ rec[1] = Val("string", <<>>)
  /\ last.pre[1] # rec[1]

\* C14: when the body cannot be decoded, BindJSON returns the decode error before
\* any field is resolved: the record is as it was, nothing is in the written set
\* and the required fields are not checked.
C14_DecodeErrorFirst ==
  (last.op = "BindJSON" /\ ~last.src.ok) =>
    /\ last.res = "err"
    /\ last.err = ErrMalformed
    /\ rec = last.pre
    /\ heap = last.preHeap
    /\ last.written = {}
    /\ ~last.validated

\* BindJSON on a body that cannot be decoded, into a record whose fields an earlier
\* call had set
C14_Witness ==
  /\ last.op = "BindJSON" /\ ~last.src.ok
  /\ last.res = "err"
  /\ \A i \in 1..Len(T) : rec[i] # Zero(T[i].type)

\* the coercion r ends as the last call did
SameCoercion(r) ==
  /\ r.res = last.res
  /\ r.err = last.err
  /\ Deep(r.h, r.cur) = Deep(heap, After)

\* C15: binding is deterministic: the same value into a fresh field of the same type
\* gives the same field and the same error outcome on every run, also when several
\* elements of a slice or of a map do not coerce.
C15_Deterministic ==
  (Coerced /\ last.pre = ZeroRecord(T)) =>
    \A o \in OrdersOf(last.value) :
      SameCoercion(setFieldValue(T[last.field].name, FieldSlot(T, last.field, last.pre),
                                 last.value, last.preHeap, o))

\* C22: no bind entry point gives setFieldValue a nil value: whatever the source
\* holds, a JSON null among it, BindForm, BindQuery and BindJSON never end in the
\* panic of the nil value.
C22_NoNilSource ==
  last.op \in {"BindForm", "BindQuery", "BindJSON"} => last.err # PanicNil

\* C23: setFieldValue is total: a value that is not nil, into any slot, settable
\* or not, returns success or an error and never panics.
C23_Total ==
  (Coerced /\ last.value.t # "nil") => last.res \in {"ok", "err"}

\* the elements of the last call's slice or map source, as setFieldValue is given them
SourceElems ==
  IF IsSlice(last.value.t)
  THEN {Interface(last.value.v.e[j]) : j \in 1..Len(last.value.v.e)}
  ELSE {Interface(last.value.v.m[k]) : k \in DOMAIN last.value.v.m}

\* the last call gave a slice to a slice field, or a map with string keys to a map
\* field with string keys; there are elements and none is nil
Contained ==
  /\ Coerced /\ Settable
  /\ \/ IsSlice(SlotType) /\ IsSlice(last.value.t)
     \/ /\ IsMap(SlotType) /\ IsMap(last.value.t)
        /\ MapKey[SlotType] = "string" /\ MapKey[last.value.t] = "string"
  /\ SourceElems # {}
  /\ \A e \in SourceElems : e.t # "nil"

\* C24: a value that is not nil coerces as an element of a slice of T, and as a
\* value of a map from string to T, exactly when it coerces into a bare T, and
\* to the same result: the container is accepted exactly when each element
\* coerces on its own, and then holds those results.
C24_ContainersAsBare ==
  Contained =>
    /\ last.res = "ok" <=> \A e \in SourceElems : Alone(Elem(SlotType), e).res = "ok"
    /\ (last.res = "ok" /\ IsSlice(SlotType)) =>
         \A j \in 1..Len(last.value.v.e) :
           Deep(heap, After.v.e[j])
             = Deep(Alone(Elem(SlotType), Interface(last.value.v.e[j])).h,
                    Alone(Elem(SlotType), Interface(last.value.v.e[j])).cur)
    /\ (last.res = "ok" /\ IsMap(SlotType)) =>
         \A k \in DOMAIN last.value.v.m :
           Deep(heap, After.v.m[k])
             = Deep(Alone(Elem(SlotType), Interface(last.value.v.m[k])).h,
                    Alone(Elem(SlotType), Interface(last.value.v.m[k])).cur)

\* C25: a float into an integer slot is stored truncated toward zero; into an
\* unsigned slot it is refused exactly when it is negative, also between -1 and
\* 0, and the slot is then left as it was; into a float slot it is stored as is.
C25_FloatSource ==
  (Coerced /\ Settable /\ IsFloat(last.value.t)) =>
    /\ IsInt(SlotType) => (last.res = "ok" /\ After.v = TruncFloat(last.value.v))
    /\ (IsUint(SlotType) /\ last.value.v < 0) => (last.res = "err" /\ SlotUntouched)
    /\ (IsUint(SlotType) /\ last.value.v >= 0) =>
         (last.res = "ok" /\ After.v = TruncFloat(last.value.v))
    /\ IsFloat(SlotType) => (last.res = "ok" /\ After.v = last.value.v)

\* the type behind the pointers of a type
RECURSIVE Peel(_)
Peel(t) == IF IsPtr(t) THEN Peel(PtrElem[t]) ELSE t

\* the value behind the pointers of a value that is not nil
RECURSIVE Target(_, _)
Target(h, x) == IF IsPtr(x.t) THEN Target(h, h[x.v]) ELSE x

RECURSIVE Aliased(_, _)
Aliased(t, value) ==
  IF IsPtr(t) THEN Aliased(Elem(t), value)
  ELSE IF IsScalar(value) THEN FALSE
  ELSE IF IsSlice(t) /\ IsSlice(value.t)
       THEN \E j \in 1..Len(value.v.e) : Aliased(Elem(t), Interface(value.v.e[j]))
  ELSE IF IsMap(t) /\ IsMap(value.t)
       THEN \E k \in DOMAIN value.v.m : Aliased(Elem(t), Interface(value.v.m[k]))
  ELSE SharedBySet(value, t)

\* the cells of the heap before the last call are as they were
TargetsKept ==
  /\ Len(heap) >= Len(last.preHeap)
  /\ \A a \in 1..Len(last.preHeap) : heap[a] = last.preHeap[a]

\* C27: a call into a pointer field never writes through what the field pointed
\* to: the cells allocated before the call are unchanged, a call that succeeds
\* leaves the field at a cell allocated by this call, and what it stored shares
\* nothing with the value it was given.
C27_FreshPointer ==
  (Coerced /\ Settable /\ IsPtr(SlotType) /\ last.value.t # "nil") =>
    /\ TargetsKept
    /\ last.res = "ok" =>
         /\ After.v > Len(last.preHeap)
         /\ ~Aliased(SlotType, last.value)

(***************************************************************************)
(* Package envkv: Unmarshal and Marshal.  A text is a sequence of bytes;   *)
(* the bytes that matter are the letters and digits, the blank, the tab,   *)
(* '#', '=', '"', the backslash, CR and LF.  A KV is [Key, Value].         *)
(***************************************************************************)
TAB == "<TAB>"

DQ == "<QUOTE>"

BS == "<BACKSLASH>"

CR == "<CR>"

LF == "<LF>"

Lower ==
  {"a", "b", "c", "d", "e", "f", "g", "h", "i", "j", "k", "l", "m",
   "n", "o", "p", "q", "r", "s", "t", "u", "v", "w", "x", "y", "z"}

Upper ==
  {"A", "B", "C", "D", "E", "F", "G", "H", "I", "J", "K", "L", "M",
   "N", "O", "P", "Q", "R", "S", "T", "U", "V", "W", "X", "Y", "Z"}

Digits == {"0", "1", "2", "3", "4", "5", "6", "7", "8", "9"}

isKeyChar(b) == b \in Lower \/ b \in Upper \/ b \in Digits

needsQuotes(str) ==
  str # <<>> /\ \E i \in 1..Len(str) : str[i] \in {" ", TAB, "#", DQ, LF}

KV(key, value) == [Key |-> key, Value |-> value]

\* what Unmarshal and Marshal return: the list or the text, and the error
Returns(ok, out, err) == [ok |-> ok, out |-> out, err |-> err]

\* errf(line, msg)
errf(ln, msg) == Returns(FALSE, <<>>, <<ln, msg>>)

\* bytes.ReplaceAll(b, "\r\n", "\n")
RECURSIVE ReplaceCRLF(_)
ReplaceCRLF(b) ==
  IF b = <<>> THEN <<>>
  ELSE IF Len(b) >= 2 /\ b[1] = CR /\ b[2] = LF THEN <<LF>> \o ReplaceCRLF(SubSeq(b, 3, Len(b)))
  ELSE <<b[1]>> \o ReplaceCRLF(Tail(b))

\* bytes.Split(b, "\n")
RECURSIVE Split(_)
Split(b) ==
  IF \A i \in 1..Len(b) : b[i] # LF THEN <<b>>
  ELSE LET i == CHOOSE j \in 1..Len(b) : b[j] = LF /\ \A k \in 1..(j - 1) : b[k] # LF
       IN  <<SubSeq(b, 1, i - 1)>> \o Split(SubSeq(b, i + 1, Len(b)))

\* Positions in a line count from 1; Len(line) + 1 is the end of the line.
RECURSIVE skipWhitespace(_, _)
skipWhitespace(line, i) ==
  IF i <= Len(line) /\ (line[i] = " " \/ line[i] = TAB) THEN skipWhitespace(line, i + 1) ELSE i

\* for i < len(line) && isKeyChar(line[i]) { i++ }
RECURSIVE keyEnd(_, _)
keyEnd(line, i) ==
  IF i <= Len(line) /\ isKeyChar(line[i]) THEN keyEnd(line, i + 1) ELSE i

\* one line's outcome: nothing, an error, or a pair
Line(kind, msg, key, val) == [kind |-> kind, msg |-> msg, key |-> key, val |-> val]

\* the loop over a quoted value from position i, with buf what was read of it;
\* then the rest of the line after the closing quote
RECURSIVE quoted(_, _, _, _)
afterQuoted(line, key, buf, i) ==
  IF i <= Len(line) /\ line[i] # "#"
  THEN Line("err", "trailing characters after quoted value", <<>>, <<>>)
  ELSE Line("kv", "", key, buf)

quoted(line, key, i, buf) ==
  IF i > Len(line) THEN Line("err", "unterminated quote", <<>>, <<>>)
  ELSE IF line[i] = DQ THEN afterQuoted(line, key, buf, skipWhitespace(line, i + 1))
  ELSE IF line[i] = BS THEN
    IF i + 1 > Len(line) THEN Line("err", "bad escape", <<>>, <<>>)
    ELSE IF line[i + 1] = DQ THEN quoted(line, key, i + 2, Append(buf, DQ))
    ELSE IF line[i + 1] = "n" THEN quoted(line, key, i + 2, Append(buf, LF))
    ELSE Line("err", "unknown escape", <<>>, <<>>)
  ELSE quoted(line, key, i + 1, Append(buf, line[i]))

\* the loop over a bare value that starts at start
RECURSIVE bare(_, _, _, _)
bare(line, key, start, i) ==
  IF i <= Len(line) /\ line[i] # "#" THEN
    IF line[i] = " " \/ line[i] = TAB THEN Line("err", "whitespace in bare value", <<>>, <<>>)
    ELSE IF line[i] = BS THEN Line("err", "backslash in bare value", <<>>, <<>>)
    ELSE bare(line, key, start, i + 1)
  ELSE Line("kv", "", key, SubSeq(line, start, i - 1))

\* the value, from the position i after the '=' and the blanks that follow it
parseValue(line, key, i) ==
  IF i <= Len(line) /\ line[i] = DQ THEN quoted(line, key, i + 1, <<>>)
  ELSE bare(line, key, i, i)

\* the '=', at the position i after the key and the blanks that follow it
parseEquals(line, key, i) ==
  IF i > Len(line) \/ line[i] # "=" THEN Line("err", "missing =", <<>>, <<>>)
  ELSE parseValue(line, key, skipWhitespace(line, i + 1))

\* the key, which starts at start and ends before i
parseKey(line, start, i) ==
  IF start = i THEN Line("err", "empty or invalid key", <<>>, <<>>)
  ELSE parseEquals(line, SubSeq(line, start, i - 1), skipWhitespace(line, i))

\* the line after its leading blanks, which end before i
parseLead(line, i) ==
  IF i > Len(line) \/ line[i] = "#" THEN Line("skip", "", <<>>, <<>>)
  ELSE parseKey(line, i, keyEnd(line, i))

parseLine(line) == parseLead(line, skipWhitespace(line, 1))

\* for ln, line := range lines, from line ln on (ln counts from 0, as errf prints it)
RECURSIVE unmarshalLines(_, _, _, _)
unmarshalLine(lines, ln, seen, out, l) ==
  CASE l.kind = "skip" -> unmarshalLines(lines, ln + 1, seen, out)
    [] l.kind = "err" -> errf(ln, l.msg)
    [] l.kind = "kv" ->
         IF l.key \in seen THEN errf(ln, "duplicate key")
         ELSE unmarshalLines(lines, ln + 1, seen \cup {l.key}, Append(out, KV(l.key, l.val)))

unmarshalLines(lines, ln, seen, out) ==
  IF ln >= Len(lines) THEN Returns(TRUE, out, <<>>)
  ELSE unmarshalLine(lines, ln, seen, out, parseLine(lines[ln + 1]))

Unmarshal(b) == unmarshalLines(Split(ReplaceCRLF(b)), 0, {}, <<>>)

\* the bytes Marshal writes for the byte c of a quoted value
escaped(c) ==
  IF c = DQ THEN <<BS, DQ>> ELSE IF c = LF THEN <<BS, "n">> ELSE <<c>>

RECURSIVE escape(_)
escape(str) == IF str = <<>> THEN <<>> ELSE escaped(Head(str)) \o escape(Tail(str))

\* the value as Marshal writes it
marshalValue(str) == IF needsQuotes(str) THEN <<DQ>> \o escape(str) \o <<DQ>> ELSE str

\* for _, e := range kv, from entry j on
RECURSIVE marshalFrom(_, _, _, _)
marshalFrom(kv, j, seen, buf) ==
  IF j > Len(kv) THEN Returns(TRUE, buf, <<>>)
  ELSE IF kv[j].Key = <<>> THEN Returns(FALSE, <<>>, "empty key")
  ELSE IF \E i \in 1..Len(kv[j].Key) : ~isKeyChar(kv[j].Key[i]) THEN Returns(FALSE, <<>>, "invalid key")
  ELSE IF kv[j].Key \in seen THEN Returns(FALSE, <<>>, "duplicate key")
  ELSE marshalFrom(kv, j + 1, seen \cup {kv[j].Key},
                   buf \o kv[j].Key \o <<"=">> \o marshalValue(kv[j].Value) \o <<LF>>)

Marshal(kv) == marshalFrom(kv, 1, {}, <<>>)

(***************************************************************************)
(* The calls of envkv.  envkv holds what is in hand (have): a list (kv), a *)
(* text or an error; the last call (op); the list the text was marshalled  *)
(* from (orig) and whether Unmarshal had returned it (parsed); and whether *)
(* the list in hand was unmarshalled from a text Marshal wrote (back).     *)
(***************************************************************************)
\* the longest value of the lists tried, the longest text tried after its "K=", and
\* the number of calls in a row
MaxValueLen == 2

MaxTextLen == 3

MaxSteps == 3

StringsUpTo(S, n) == UNION {[1..k -> S] : k \in 0..n}

EnvBytes == {"a", "n", " ", "#", DQ, BS, LF, CR}

EnvKeys == {<<"K">>, <<"k", "1">>, <<>>, <<"k", "-">>}

\* the lists handed to Marshal: one entry of any key and value, and two entries
KVLists ==
  {<<>>}
    \cup {<<KV(k, v)>> : k \in EnvKeys, v \in StringsUpTo(EnvBytes, MaxValueLen)}
    \cup {<<KV(k1, v1), KV(k2, v2)>> :
            k1 \in {<<"K">>, <<"k", "1">>}, k2 \in {<<"K">>, <<"k", "1">>},
            v1 \in {<<>>, <<"a", " ">>, <<BS>>}, v2 \in {<<>>, <<"a">>, <<DQ>>}}

\* the texts handed to Unmarshal: "K=" and a few bytes, and some of several lines
Texts ==
  {<<"K", "=">> \o t : t \in StringsUpTo(EnvBytes \cup {"="}, MaxTextLen)}
    \cup { <<LF, "#", " ", "c", LF, "F", "=", "a", LF, LF, "B", " ", "=", " ", DQ, "q", DQ, " ", LF>>,
           <<"F", "=", "a", LF, "F", "=", "b">>,
           <<"F", "=", "a", CR, LF, "G", "=", "b", CR, LF>>,
           <<"=", "a">>, <<"K">>, <<TAB, "K", TAB, "=", TAB, "a", "#", "=">> }

Envkv(have, op, kv, text, err, orig, parsed, back, n) ==
  [have |-> have, op |-> op, kv |-> kv, text |-> text, err |-> err, orig |-> orig,
   parsed |-> parsed, back |-> back, n |-> n]

EnvkvInit ==
  /\ envkv \in {Envkv("kv", "none", l, <<>>, <<>>, <<>>, FALSE, FALSE, 0) : l \in KVLists}
                 \cup {Envkv("text", "none", <<>>, t, <<>>, <<>>, FALSE, FALSE, 0) : t \in Texts}
  /\ OnlyEnvkv

\* out, err := Marshal(kv), with r what it returns
Marshalled(r) ==
  envkv' = Envkv(IF r.ok THEN "text" ELSE "err", "Marshal", <<>>, r.out, r.err, envkv.kv,
                 envkv.op = "Unmarshal", FALSE, envkv.n + 1)

MarshalCall ==
  /\ envkv.have = "kv"
  /\ envkv.n < MaxSteps
  /\ Marshalled(Marshal(envkv.kv))
  /\ UNCHANGED notEnvkv

\* kv, err := Unmarshal(text), with r what it returns
Unmarshalled(r) ==
  envkv' = Envkv(IF r.ok THEN "kv" ELSE "err", "Unmarshal", r.out, <<>>, r.err, envkv.orig,
                 envkv.parsed, envkv.op = "Marshal", envkv.n + 1)

UnmarshalCall ==
  /\ envkv.have = "text"
  /\ envkv.n < MaxSteps
  /\ Unmarshalled(Unmarshal(envkv.text))
  /\ UNCHANGED notEnvkv

EnvkvNext == MarshalCall \/ UnmarshalCall

EnvkvSpec == EnvkvInit /\ [][EnvkvNext]_vars

\* C16: when Marshal accepts a list, and in particular a list Unmarshal returned,
\* Unmarshal of the text it wrote succeeds and returns the same keys and values in
\* the same order.
C16_RoundTrip ==
  (envkv.op = "Unmarshal" /\ envkv.back) => (envkv.have = "kv" /\ envkv.kv = envkv.orig)

(***************************************************************************)
(* Package fsatomic: WriteFile(file, data, perm).  The file system has two *)
(* views: what the calls see (dir, data) and what is on disk and survives  *)
(* a crash (ddir, ddata).  A directory maps names to inodes; data gives    *)
(* each inode its bytes.  The kernel may write anything back at any time;  *)
(* Sync writes back what it is called on.  Every call of the code may      *)
(* fail.  fs.pc is the next call WriteFile makes.  mode gives each inode   *)
(* its permission bits, a set of bits; the process has a umask.            *)
(***************************************************************************)
\* the number of calls of WriteFile
MaxWrites == 2

\* the content of the target before the first call, and the data written
Old == <<"o", "l", "d">>

Datas == {<<"a", "b">>, <<"c", "d", "e">>}

\* permission bits: 0400, 0600 and 0644, and the umasks 022 and 077
Mode0400 == {"u+r"}

Mode0600 == {"u+r", "u+w"}

Mode0644 == {"u+r", "u+w", "g+r", "o+r"}

Perms == {Mode0400, Mode0644}

Umasks == {{"g+w", "o+w"}, {"g+r", "g+w", "g+x", "o+r", "o+w", "o+x"}}

\* open(name, O_CREATE, perm): a file that is created gets perm less the umask,
\* a file that exists keeps the mode it has
OpenFile(f, name, perm) ==
  IF name \in DOMAIN f.dir THEN f.mode[f.dir[name]] ELSE perm \ f.umask

File(bytes) == [exists |-> TRUE, bytes |-> bytes]

NoFile == [exists |-> FALSE, bytes |-> <<>>]

\* what a reader finds under name, in the directory d with the inode contents c
Content(d, c, name) == IF name \in DOMAIN d THEN File(c[d[name]]) ELSE NoFile

\* the directory d without name, and with name bound to ino
Unlink(d, name) == [n \in DOMAIN d \ {name} |-> d[n]]

Link(d, name, ino) == [n \in DOMAIN d \cup {name} |-> IF n = name THEN ino ELSE d[n]]

\* a variant of Sync that writes nothing back
SyncNothing(f, ino) == f

\* fh.Sync(): the bytes of the inode are on disk
Sync(f, ino) == [f EXCEPT !.ddata[ino] = f.data[ino]]

\* dh.Sync(): the directory is on disk
SyncDirectory(f) == [f EXCEPT !.ddir = f.dir]

\* return fmt.Errorf(msg, err): the deferred function runs next
Fail(f, msg) == [f EXCEPT !.pc = "return", !.err = msg]

\* os.Rename(tmp, file); removeTemp = false
Renamed(f) ==
  [f EXCEPT !.dir = Link(Unlink(f.dir, "tmp"), "file", f.tmp),
            !.removeTemp = FALSE, !.pc = "diropen"]

FsInit ==
  /\ fs \in {[pc |-> "idle", dir |-> d, ddir |-> d, data |-> c, ddata |-> c, tmp |-> 0,
              want |-> <<>>, old |-> Content(d, c, "file"), dold |-> Content(d, c, "file"),
              new |-> Content(d, c, "file"), removeTemp |-> FALSE, err |-> "", calls |-> 0,
              mode |-> <<Mode0644>>, perm |-> {}, umask |-> u, existed |-> FALSE] :
               d \in {("file" :> 1)}, c \in {<<Old>>}, u \in Umasks}
            \cup
            {[pc |-> "idle", dir |-> <<>>, ddir |-> <<>>, data |-> <<>>, ddata |-> <<>>, tmp |-> 0,
              want |-> <<>>, old |-> NoFile, dold |-> NoFile, new |-> NoFile,
              removeTemp |-> FALSE, err |-> "", calls |-> 0,
              mode |-> <<>>, perm |-> {}, umask |-> u, existed |-> FALSE] : u \in Umasks}
  /\ OnlyFs

\* tmpfile, err := os.CreateTemp(dir, ...), which creates the file with 0600
CreateTemp ==
  /\ fs.pc = "idle"
  /\ fs.calls < MaxWrites
  /\ \E d \in Datas, perm \in Perms, ok \in BOOLEAN :
       fs' = IF ok
             THEN [fs EXCEPT !.pc = "write", !.tmp = Len(fs.data) + 1,
                             !.dir = Link(fs.dir, "tmp", Len(fs.data) + 1),
                             !.data = Append(fs.data, <<>>), !.ddata = Append(fs.ddata, <<>>),
                             !.mode = Append(fs.mode, Mode0600 \ fs.umask),
                             !.want = d, !.new = File(d), !.perm = perm,
                             !.existed = "file" \in DOMAIN fs.dir,
                             !.old = Content(fs.dir, fs.data, "file"),
                             !.dold = Content(fs.ddir, fs.ddata, "file"),
                             !.removeTemp = TRUE, !.err = ""]
             ELSE [fs EXCEPT !.err = "tmp create", !.calls = fs.calls + 1]
  /\ UNCHANGED notFs

\* err = os.WriteFile(tmp, data, perm): the bytes reach the file one at a time
WriteTmp ==
  /\ fs.pc = "write"
  /\ \E ok \in BOOLEAN :
       fs' = IF ~ok THEN Fail(fs, "tmp write")
             ELSE IF Len(fs.data[fs.tmp]) < Len(fs.want)
             THEN [fs EXCEPT !.data[fs.tmp] = Append(@, fs.want[Len(@) + 1]),
                             !.mode[fs.tmp] = OpenFile(fs, "tmp", fs.perm)]
             ELSE [fs EXCEPT !.pc = "open"]
  /\ UNCHANGED notFs

\* fh, err := os.Open(tmp)
OpenTmp ==
  /\ fs.pc = "open"
  /\ \E ok \in BOOLEAN : fs' = IF ok THEN [fs EXCEPT !.pc = "sync"] ELSE Fail(fs, "tmp open")
  /\ UNCHANGED notFs

\* err = fh.Sync()
SyncTmp ==
  /\ fs.pc = "sync"
  /\ \E ok \in BOOLEAN :
       fs' = IF ok THEN [Sync(fs, fs.tmp) EXCEPT !.pc = "close"] ELSE Fail(fs, "tmp sync")
  /\ UNCHANGED notFs

\* err = fh.Close()
CloseTmp ==
  /\ fs.pc = "close"
  /\ \E ok \in BOOLEAN : fs' = IF ok THEN [fs EXCEPT !.pc = "rename"] ELSE Fail(fs, "tmp close")
  /\ UNCHANGED notFs

\* err = os.Rename(tmp, file)
Rename ==
  /\ fs.pc = "rename"
  /\ \E ok \in BOOLEAN : fs' = IF ok THEN Renamed(fs) ELSE Fail(fs, "tmp rename")
  /\ UNCHANGED notFs

\* dh, err := os.Open(path.Dir(file))
OpenDir ==
  /\ fs.pc = "diropen"
  /\ \E ok \in BOOLEAN : fs' = IF ok THEN [fs EXCEPT !.pc = "dirsync"] ELSE Fail(fs, "dir open")
  /\ UNCHANGED notFs

\* err = dh.Sync()
SyncDir ==
  /\ fs.pc = "dirsync"
  /\ \E ok \in BOOLEAN :
       fs' = IF ok THEN [SyncDirectory(fs) EXCEPT !.pc = "dirclose"] ELSE Fail(fs, "dir sync")
  /\ UNCHANGED notFs

\* err = dh.Close(); return nil
CloseDir ==
  /\ fs.pc = "dirclose"
  /\ \E ok \in BOOLEAN : fs' = IF ok THEN [fs EXCEPT !.pc = "return"] ELSE Fail(fs, "dir close")
  /\ UNCHANGED notFs

\* the return, with the deferred function: if removeTemp { os.Remove(tmp) }
Return ==
  /\ fs.pc = "return"
  /\ fs' = [fs EXCEPT !.pc = "idle", !.calls = fs.calls + 1,
                      !.dir = IF fs.removeTemp THEN Unlink(fs.dir, "tmp") ELSE fs.dir]
  /\ UNCHANGED notFs

\* the kernel writes the directory back, or more of the bytes of an inode
Writeback ==
  /\ fs.pc # "crashed"
  /\ \/ fs.ddir # fs.dir /\ fs' = SyncDirectory(fs)
     \/ \E ino \in 1..Len(fs.data) :
          \E k \in (Len(fs.ddata[ino]) + 1)..Len(fs.data[ino]) :
            fs' = [fs EXCEPT !.ddata[ino] = SubSeq(fs.data[ino], 1, k)]
  /\ UNCHANGED notFs

\* a crash or a power loss: what was not on disk is gone
Crash ==
  /\ fs.pc # "crashed"
  /\ fs' = [fs EXCEPT !.pc = "crashed", !.dir = fs.ddir, !.data = fs.ddata]
  /\ UNCHANGED notFs

FsNext ==
  \/ CreateTemp
  \/ WriteTmp
  \/ OpenTmp
  \/ SyncTmp
  \/ CloseTmp
  \/ Rename
  \/ OpenDir
  \/ SyncDir
  \/ CloseDir
  \/ Return
  \/ Writeback
  \/ Crash

FsSpec == FsInit /\ [][FsNext]_vars

\* C17: at every step of WriteFile, after a crash at any step and after any error
\* return, the target holds the complete content it had when the call began or the
\* complete data of the call: what a reader sees is the one or the other, and what
\* is on disk, which is what is there after a crash, is the one or the other, the
\* content it had being what a reader saw or what was on disk when the call began.
C17_Atomic ==
  /\ fs.pc # "crashed" => Content(fs.dir, fs.data, "file") \in {fs.old, fs.new}
  /\ Content(fs.ddir, fs.ddata, "file") \in {fs.old, fs.dold, fs.new}
  /\ fs.pc = "crashed" => Content(fs.dir, fs.data, "file") = Content(fs.ddir, fs.ddata, "file")

\* a crash during the second call, after its rename had reached the disk: the
\* target, which held the data of the first call, holds the new data
C17_Witness ==
  /\ fs.pc = "crashed"
  /\ fs.calls = 1
  /\ fs.old.exists /\ fs.old # File(Old)
  /\ Content(fs.dir, fs.data, "file") = fs.new
  /\ fs.new # fs.old

\* WriteFile has returned nil
Succeeded == fs.pc = "idle" /\ fs.calls > 0 /\ fs.err = ""

\* C30: after WriteFile has returned success the target has the permission bits
\* of perm, as os.WriteFile gives them to a file it creates (perm less the
\* umask), for a target that did not exist and for one that is overwritten.
C30_TargetHasPerm ==
  Succeeded => fs.mode[fs.dir["file"]] = fs.perm \ fs.umask

(***************************************************************************)
(* Package flagx: StringVar, BoolVar, IntVar and Parse.  Names and texts   *)
(* are sequences of bytes, as in envkv; a variable's value is a string, a  *)
(* boolean or an integer.  The command line is the sequence of the flags   *)
(* given, each a name and a text, as package flag reads them.              *)
(***************************************************************************)
\* the number of registered variables
MaxVars == 2

LowerSeq ==
  <<"a", "b", "c", "d", "e", "f", "g", "h", "i", "j", "k", "l", "m",
    "n", "o", "p", "q", "r", "s", "t", "u", "v", "w", "x", "y", "z">>

UpperSeq ==
  <<"A", "B", "C", "D", "E", "F", "G", "H", "I", "J", "K", "L", "M",
    "N", "O", "P", "Q", "R", "S", "T", "U", "V", "W", "X", "Y", "Z">>

\* strings.ToUpper
ToUpper(str) ==
  [i \in 1..Len(str) |->
     IF str[i] \in Lower THEN UpperSeq[CHOOSE j \in 1..Len(LowerSeq) : LowerSeq[j] = str[i]]
     ELSE str[i]]

varRec(key, type, defaultVal) == [key |-> key, type |-> type, defaultVal |-> defaultVal]

\* toBool
toBool(v) == ~(v = <<"f", "a", "l", "s", "e">> \/ v = <<>>)

\* toInt: the error of ParseInt is dropped, and ParseInt returned 0 with it
toInt(v) == IF ParseInt(v).ok THEN ParseInt(v).val ELSE 0

\* the type switch on v.val, for the text a source gives
fromText(type, text) ==
  CASE type = "string" -> text
    [] type = "bool" -> toBool(text)
    [] type = "int" -> toInt(text)

\* 1. Write from envkv: for _, val := range envkvs, from entry j on
RECURSIVE fromEnvkv(_, _, _, _)
fromEnvkv(v, cur, envkvs, j) ==
  IF j > Len(envkvs) THEN cur
  ELSE fromEnvkv(v, IF envkvs[j].Key = ToUpper(v.key) THEN fromText(v.type, envkvs[j].Value) ELSE cur,
                 envkvs, j + 1)

\* 2: Write from environment
fromEnv(v, cur, env) ==
  IF ToUpper(v.key) \in DOMAIN env THEN fromText(v.type, env[ToUpper(v.key)]) ELSE cur

\* a variant of the loop's body that writes from the environment first
writeVarEnvFirst(v, cur, envkvs, env) == fromEnvkv(v, fromEnv(v, cur, env), envkvs, 1)

\* the body of the loop over allVars
writeVar(v, cur, envkvs, env) == fromEnv(v, fromEnvkv(v, cur, envkvs, 1), env)

\* bytes, err := os.ReadFile(".envkv"); envkvs, err = envkv.Unmarshal(bytes)
readEnvkv(file) ==
  IF file.kind = "text" /\ Unmarshal(file.text).ok THEN Unmarshal(file.text).out ELSE <<>>

\* what package flag makes of the text given for a flag of a type
flagValue(type, text) ==
  CASE type = "string" -> [ok |-> TRUE, val |-> text]
    [] type = "bool" -> [ok |-> ParseBool(text).ok, val |-> ParseBool(text).val]
    [] type = "int" -> [ok |-> ParseInt(text).ok, val |-> ParseInt(text).val]

\* the position of the flag name among the registered variables, 0 if there is none
flagIndex(allVars, name) ==
  IF \E i \in 1..Len(allVars) : allVars[i].key = name
  THEN CHOOSE i \in 1..Len(allVars) : allVars[i].key = name
  ELSE 0

\* flag.Parse(), from the flag j of the command line on: "exit" when a flag is not
\* defined or its text is not of its type (flag.ExitOnError)
RECURSIVE flagParse(_, _, _, _)
flagParse(allVars, vals, args, j) ==
  IF j > Len(args) THEN [res |-> "ok", vals |-> vals]
  ELSE IF flagIndex(allVars, args[j].name) = 0 THEN [res |-> "exit", vals |-> vals]
  ELSE IF ~flagValue(allVars[flagIndex(allVars, args[j].name)].type, args[j].text).ok
       THEN [res |-> "exit", vals |-> vals]
  ELSE flagParse(allVars,
                 [vals EXCEPT ![flagIndex(allVars, args[j].name)] =
                    flagValue(allVars[flagIndex(allVars, args[j].name)].type, args[j].text).val],
                 args, j + 1)

\* Parse(): the values of the variables afterwards
parse(allVars, vals, file, env, args) ==
  flagParse(allVars,
            [i \in 1..Len(allVars) |-> writeVar(allVars[i], vals[i], readEnvkv(file), env)],
            args, 1)

Chars(a, b, c) == <<a, b, c>>

\* the files .envkv may be: none, one that cannot be read, and texts
EnvkvFiles ==
  { [kind |-> "absent", text |-> <<>>],
    [kind |-> "unreadable", text |-> <<>>],
    [kind |-> "text", text |-> <<"S", "T", "R", "=", "k", LF, "I", "N", "T", "=", "9", LF, "B", "=", "t", LF>>],
    [kind |-> "text", text |-> <<"S", "T", "R", "=", "k", LF, "S", "T", "R", "=", "j">>],
    [kind |-> "text", text |-> <<"s", "t", "r", "=", "k", LF, "B", "=", LF, "I", "N", "T", "=", "x">>] }

\* the environments
Environments ==
  { <<>>,
    (Chars("S", "T", "R") :> <<"e">>),
    (Chars("s", "t", "r") :> <<"l">>) @@ (<<"B">> :> <<"f", "a", "l", "s", "e">>),
    (Chars("I", "N", "T") :> <<"2">>) @@ (<<"B">> :> <<"0">>),
    (Chars("I", "N", "T") :> <<"x">>) @@ (Chars("S", "T", "R") :> <<>>) }

Flag(name, text) == [name |-> name, text |-> text]

\* the command lines
CommandLines ==
  { <<>>,
    <<Flag(Chars("s", "t", "r"), <<"c">>)>>,
    <<Flag(Chars("s", "t", "r"), <<"c">>), Flag(Chars("s", "t", "r"), <<"d">>)>>,
    <<Flag(Chars("I", "n", "t"), <<"4", "2">>), Flag(<<"b">>, <<"t", "r", "u", "e">>)>>,
    <<Flag(<<"b">>, <<"f", "a", "l", "s", "e">>)>>,
    <<Flag(Chars("I", "n", "t"), <<"x">>)>> }

Flagx(allVars, vals, state, file, env, args) ==
  [allVars |-> allVars, vals |-> vals, state |-> state, file |-> file, env |-> env, args |-> args]

FlagxInit ==
  /\ flagx = Flagx(<<>>, <<>>, "init", [kind |-> "absent", text |-> <<>>], <<>>, <<>>)
  /\ OnlyFlagx

\* allVars = append(allVars, varRec{...}); flag.XxxVar(val, key, defaultVal, help), which
\* sets *val to defaultVal
Registered(key, type, defaultVal) ==
  [flagx EXCEPT !.allVars = Append(@, varRec(key, type, defaultVal)),
                !.vals = Append(@, defaultVal)]

\* package flag panics when the name is already defined; no variable is registered
\* after Parse
CanRegister(key) ==
  /\ flagx.state = "init"
  /\ Len(flagx.allVars) < MaxVars
  /\ flagIndex(flagx.allVars, key) = 0

StringVar ==
  /\ CanRegister(Chars("s", "t", "r"))
  /\ \E d \in {<<"d", "e", "f">>} : flagx' = Registered(Chars("s", "t", "r"), "string", d)
  /\ UNCHANGED notFlagx

BoolVar ==
  /\ CanRegister(<<"b">>)
  /\ \E d \in BOOLEAN : flagx' = Registered(<<"b">>, "bool", d)
  /\ UNCHANGED notFlagx

IntVar ==
  /\ CanRegister(Chars("I", "n", "t"))
  /\ \E d \in {1} : flagx' = Registered(Chars("I", "n", "t"), "int", d)
  /\ UNCHANGED notFlagx

\* Parse(), with p the values of the variables afterwards
Parsed_(file, env, args, p) ==
  flagx' = [flagx EXCEPT !.state = p.res, !.vals = p.vals, !.file = file, !.env = env, !.args = args]

Parse ==
  /\ flagx.state = "init"
  /\ \E file \in EnvkvFiles, env \in Environments, args \in CommandLines :
       Parsed_(file, env, args, parse(flagx.allVars, flagx.vals, file, env, args))
  /\ UNCHANGED notFlagx

FlagxNext == StringVar \/ BoolVar \/ IntVar \/ Parse

FlagxSpec == FlagxInit /\ [][FlagxNext]_vars

\* the texts the command line gives the flag name, in order
Given(name) == SelectSeq(flagx.args, LAMBDA a : a.name = name)

\* the entries of .envkv under the key, when the file could be read and parsed
Entries(key) == SelectSeq(readEnvkv(flagx.file), LAMBDA e : e.Key = key)

\* the value the claim gives the variable v
Expected(v) ==
  IF Given(v.key) # <<>> THEN flagValue(v.type, Given(v.key)[Len(Given(v.key))].text).val
  ELSE IF ToUpper(v.key) \in DOMAIN flagx.env THEN fromText(v.type, flagx.env[ToUpper(v.key)])
  ELSE IF Entries(ToUpper(v.key)) # <<>> THEN fromText(v.type, Entries(ToUpper(v.key))[1].Value)
  ELSE v.defaultVal

\* C18: after Parse every registered variable holds the value of the first source
\* that provides it, in the order command line, environment, .envkv, default; the
\* environment and .envkv are looked up under the upper-cased name.
C18_Priority ==
  flagx.state = "ok" =>
    \A i \in 1..Len(flagx.allVars) : flagx.vals[i] = Expected(flagx.allVars[i])

\* Parse returned with two variables registered: .envkv and the environment both
\* provide Int, and the variable holds the text of the environment; .envkv alone
\* provides the other, which holds that
C18_Witness ==
  /\ flagx.state = "ok"
  /\ Len(flagx.allVars) = 2
  /\ \E i, j \in 1..2 :
       /\ flagx.allVars[i].key = Chars("I", "n", "t")
       /\ Entries(Chars("I", "N", "T")) # <<>>
       /\ Chars("I", "N", "T") \in DOMAIN flagx.env
       /\ flagx.vals[i] = 2
       /\ flagx.allVars[j].key = <<"b">>
       /\ Entries(<<"B">>) # <<>>
       /\ flagx.vals[j] = TRUE
       /\ flagx.allVars[j].defaultVal = FALSE
  /\ flagx.args = <<>>

(***************************************************************************)
(* Package middleware: TagWithRequestID.  A request is the sequence of the *)
(* values of its cookies named cid, in the order of the Cookie header; an  *)
(* identifier is a sequence of bytes.  crypto/rand gives any bytes.        *)
(***************************************************************************)
\* the number of requests served
MaxRequests == 2

idLength == 6

hextable == <<"0", "1", "2", "3", "4", "5", "6", "7", "8", "9", "a", "b", "c", "d", "e", "f">>

\* hex.EncodeToString
EncodeToString(b) ==
  [i \in 1..(2 * Len(b)) |->
     IF i % 2 = 1 THEN hextable[(b[(i + 1) \div 2] \div 16) + 1]
     ELSE hextable[(b[i \div 2] % 16) + 1]]

\* the values a byte of rand.Read takes here
RandByte == {0, 175}

\* rand.Read(b), for a b of n bytes
RandRead(n) == [1..n -> RandByte]

\* randomHex(n), for the bytes rand.Read gave
randomHex(b) == EncodeToString(b)

\* isValidClientID
isValidClientID(str) ==
  /\ Len(str) = idLength
  /\ \A i \in 1..Len(str) : str[i] \in {hextable[j] : j \in 1..Len(hextable)}

\* r.Cookie(cookieCID): the first cookie of the name, or http.ErrNoCookie
Cookie(cookies) ==
  IF cookies = <<>> THEN [err |-> TRUE, Value |-> <<>>] ELSE [err |-> FALSE, Value |-> cookies[1]]

\* the negation of: err != nil || !isValidClientID(cidCookie.Value)
keepsCookie(cidCookie) == ~cidCookie.err /\ isValidClientID(cidCookie.Value)

NoCookie == <<"none">>

\* the handler: the ids put in the context and the Set-Cookie of the response, for
\* the identifiers randomHex returns
tagged(cookies, cid, setCookie, rid) ==
  [cookies |-> cookies, cid |-> cid, setCookie |-> setCookie, rid |-> rid]

Valid == <<"1", "2", "3", "a", "b", "c">>

Invalid == <<"I", "N", "V", "A", "L", "I", "D">>

\* the cid cookies clients send: none, a well-formed one, malformed ones, two of
\* the name, and the cookie the server issued last
Requests ==
  { <<>>,
    <<Valid>>,
    <<Invalid>>,
    <<<<"A", "B", "C", "D", "E", "F">>>>,
    <<<<"1", "2", "3", "4", "5", "g">>>>,
    <<<<"1", "2", "3", "4", "5">>>>,
    <<Valid, Invalid>>,
    <<Invalid, Valid>> } \cup (IF mw.n > 0 THEN {<<mw.last.cid>>} ELSE {})

Mw(n, lastReq, rids) == [n |-> n, last |-> lastReq, rids |-> rids]

MwInit ==
  /\ mw = Mw(0, [cookies |-> <<>>, cid |-> <<>>, setCookie |-> NoCookie, rid |-> <<>>], <<>>)
  /\ OnlyMw

\* the handler served a request, with t what it made of it
Served(t) == mw' = Mw(mw.n + 1, t, Append(mw.rids, t.rid))

TagWithRequestID ==
  /\ mw.n < MaxRequests
  /\ \E cookies \in Requests, b2 \in RandRead((idLength + 1) \div 2) :
       IF keepsCookie(Cookie(cookies))
       THEN Served(tagged(cookies, Cookie(cookies).Value, NoCookie, randomHex(b2)))
       ELSE \E b1 \in RandRead((idLength + 1) \div 2) :
              Served(tagged(cookies, randomHex(b1), randomHex(b1), randomHex(b2)))
  /\ UNCHANGED notMw

MwNext == TagWithRequestID

MwSpec == MwInit /\ [][MwNext]_vars

\* the well-formed cid cookies of the last request
WellFormed == {mw.last.cookies[i] : i \in {j \in 1..Len(mw.last.cookies) : isValidClientID(mw.last.cookies[j])}}

\* C19: a request with a well-formed cid cookie is given that CID and no new cookie;
\* a request without one is given a well-formed CID, sent back as the cid cookie;
\* no two requests are given the same RID.
C19_RequestIDs ==
  mw.n > 0 =>
    /\ WellFormed # {} => (mw.last.cid \in WellFormed /\ mw.last.setCookie = NoCookie)
    /\ WellFormed = {} => (isValidClientID(mw.last.cid) /\ mw.last.setCookie = mw.last.cid)
    /\ \A i, j \in 1..Len(mw.rids) : i # j => mw.rids[i] # mw.rids[j]

(***************************************************************************)
(* Package slogx: NewCategory, categoryHandler and textHandler, with the   *)
(* part of slog.Logger they are used through.  A logger is the             *)
(* categoryHandler it holds; its base is a textHandler, which has its own  *)
(* attrs, or the captureHandler of the tests, one object all its loggers   *)
(* share.  Categories and printed columns are sequences of bytes.          *)
(***************************************************************************)
\* the number of loggers made
MaxLoggers == 3

\* the number of records logged
MaxRecords == 2

LevelDebug == 0 - 4

LevelInfo == 0

LevelWarn == 4

LevelError == 8

Levels == {LevelDebug, LevelInfo, LevelWarn, LevelError}

Attr(key, value) == [Key |-> key, Value |-> value]

Unknown == <<"<", "u", "n", "k", "n", "o", "w", "n", ">">>

\* leftJustified
leftJustified(str, width) ==
  IF Len(str) >= width THEN SubSeq(str, 1, width)
  ELSE str \o [i \in 1..(width - Len(str)) |-> " "]

\* the callback of textHandler.Handle on one attr: the category found so far
catOf(catStr, attr) ==
  IF attr.Key = "category" /\ attr.Value # <<>> THEN attr.Value ELSE catStr

\* forAllAttrs: h.attrs, then the attrs of the record, from attr j on
RECURSIVE catStrFrom(_, _, _)
catStrFrom(catStr, all, j) ==
  IF j > Len(all) THEN catStr ELSE catStrFrom(catOf(catStr, all[j]), all, j + 1)

\* the attrs textHandler.Handle formats into kvstr
kvOf(all) == SelectSeq(all, LAMBDA attr : ~(attr.Key = "category" /\ attr.Value # <<>>))

\* textHandler.Handle: the line written
textHandle(attrs, r) ==
  [cat |-> leftJustified(catStrFrom(Unknown, attrs \o r.attrs, 1), 10),
   msg |-> r.msg,
   kv |-> kvOf(attrs \o r.attrs)]

\* textHandler.WithAttrs: the attrs of the handler returned
textWithAttrs(h, attrs) == attrs

\* textHandler.WithGroup: the attrs of the handler returned
textWithGroup(h, name) == h.attrs

\* a categoryHandler: its base (the attrs of a textHandler; the captureHandler has
\* them in slogx.capture), its minLevel, and the category NewCategory was given
categoryHandler(kind, attrs, minLevel, category) ==
  [kind |-> kind, attrs |-> attrs, minLevel |-> minLevel, category |-> category]

\* categoryHandler.Enabled
Enabled(h, lvl) == lvl >= h.minLevel

\* categoryHandler.WithAttrs over a textHandler
withAttrs(h, attrs) == [h EXCEPT !.attrs = textWithAttrs(h, attrs)]

\* categoryHandler.WithGroup over a textHandler
withGroup(h, name) == [h EXCEPT !.attrs = textWithGroup(h, name)]

Categories == {<<"d", "b">>, <<"n", "e", "t">>}

\* the attrs given to Logger.With and to the logging calls
AttrLists ==
  { <<>>,
    <<Attr("key", <<"v">>)>>,
    <<Attr("category", <<"t", "s", "t">>)>> }

NoRecord == [logger |-> 0, reached |-> FALSE, attrs |-> <<>>, line |-> [cat |-> <<>>, msg |-> "", kv |-> <<>>]]

Slogx(loggers, capture, n, out) == [loggers |-> loggers, capture |-> capture, n |-> n, out |-> out]

SlogxInit ==
  /\ slogx = Slogx(<<>>, <<>>, 0, NoRecord)
  /\ OnlySlogx

\* a logger was made: h is its handler and capture the attrs of the captureHandler
Made(h, capture) ==
  slogx' = [slogx EXCEPT !.loggers = Append(@, h), !.capture = capture]

\* NewCategory(category, base, minLevel): slog.New(handler).With("category", category)
NewCategory ==
  /\ Len(slogx.loggers) < MaxLoggers
  /\ \E category \in Categories, kind \in {"text", "capture"}, minLevel \in {LevelDebug, LevelWarn} :
       IF kind = "text"
       THEN Made(withAttrs(categoryHandler(kind, <<>>, minLevel, category), <<Attr("category", category)>>),
                 slogx.capture)
       ELSE Made(categoryHandler(kind, <<>>, minLevel, category),
                 slogx.capture \o <<Attr("category", category)>>)
  /\ UNCHANGED notSlogx

\* Logger.With(args...) on a logger made: the same logger when there are no args
With ==
  /\ Len(slogx.loggers) < MaxLoggers
  /\ \E i \in 1..Len(slogx.loggers), attrs \in AttrLists \ {<<>>} :
       IF slogx.loggers[i].kind = "text"
       THEN Made(withAttrs(slogx.loggers[i], attrs), slogx.capture)
       ELSE Made(slogx.loggers[i], slogx.capture \o attrs)
  /\ UNCHANGED notSlogx

\* Logger.WithGroup(name) on a logger made, for a name that is not empty
WithGroup ==
  /\ Len(slogx.loggers) < MaxLoggers
  /\ \E i \in 1..Len(slogx.loggers), name \in {"g"} :
       Made(withGroup(slogx.loggers[i], name), slogx.capture)
  /\ UNCHANGED notSlogx

\* the record went to the base handler of logger i, or was dropped by Enabled
Handled(i, lvl, r) ==
  slogx' = [slogx EXCEPT
    !.n = @ + 1,
    !.out = IF ~Enabled(slogx.loggers[i], lvl) THEN [NoRecord EXCEPT !.logger = i]
            ELSE IF slogx.loggers[i].kind = "text"
            THEN [logger |-> i, reached |-> TRUE, attrs |-> slogx.loggers[i].attrs \o r.attrs,
                  line |-> textHandle(slogx.loggers[i].attrs, r)]
            ELSE [NoRecord EXCEPT !.logger = i, !.reached = TRUE, !.attrs = r.attrs \o slogx.capture]]

\* Logger.Debug/Info/Warn/Error(msg, args...)
Log ==
  /\ slogx.n < MaxRecords
  /\ \E i \in 1..Len(slogx.loggers), lvl \in Levels, attrs \in AttrLists :
       Handled(i, lvl, [msg |-> "m", attrs |-> attrs])
  /\ UNCHANGED notSlogx

SlogxNext == NewCategory \/ With \/ WithGroup \/ Log

SlogxSpec == SlogxInit /\ [][SlogxNext]_vars

\* the attrs the base handler had for the last record
Received == {slogx.out.attrs[j] : j \in 1..Len(slogx.out.attrs)}

\* C20: a record that reaches the base handler through a category logger, or a
\* logger derived from one, carries the category attribute given to NewCategory,
\* and the text handler prints it under that category.
C20_CategoryCarried ==
  slogx.out.reached =>
    /\ Attr("category", slogx.loggers[slogx.out.logger].category) \in Received
    /\ slogx.loggers[slogx.out.logger].kind = "text" =>
         slogx.out.line.cat = leftJustified(slogx.loggers[slogx.out.logger].category, 10)

(***************************************************************************)
(* Package uuidv4: UUID.String and FromString.  A UUID is a sequence of 16 *)
(* bytes, a string a sequence of characters.                               *)
(***************************************************************************)
\* the values of the byte of a UUID that varies
UuidBytes == {0, 10, 127, 171, 255}

upperhex == <<"0", "1", "2", "3", "4", "5", "6", "7", "8", "9", "A", "B", "C", "D", "E", "F">>

IsHexChar(c) ==
  \/ \E j \in 1..Len(hextable) : hextable[j] = c
  \/ \E j \in 1..Len(upperhex) : upperhex[j] = c

\* hex.fromHexChar, for a character it accepts
fromHexChar(c) ==
  IF \E j \in 1..Len(hextable) : hextable[j] = c
  THEN (CHOOSE j \in 1..Len(hextable) : hextable[j] = c) - 1
  ELSE (CHOOSE j \in 1..Len(upperhex) : upperhex[j] = c) - 1

\* hex.Decode of a source of even length: an error for a byte that is no hex digit
Decode(src) ==
  IF \E i \in 1..Len(src) : ~IsHexChar(src[i]) THEN [ok |-> FALSE, out |-> <<>>]
  ELSE [ok |-> TRUE,
        out |-> [i \in 1..(Len(src) \div 2) |->
                   fromHexChar(src[2 * i - 1]) * 16 + fromHexChar(src[2 * i])]]

\* UUID.String
String(u) ==
  EncodeToString(SubSeq(u, 1, 4)) \o <<"-">> \o EncodeToString(SubSeq(u, 5, 6)) \o <<"-">>
    \o EncodeToString(SubSeq(u, 7, 8)) \o <<"-">> \o EncodeToString(SubSeq(u, 9, 10)) \o <<"-">>
    \o EncodeToString(SubSeq(u, 11, 16))

ErrUUID == [ok |-> FALSE, u |-> <<>>]

\* the five calls of hex.Decode of FromString, each returning its error
decodeAll(d1, d2, d3, d4, d5) ==
  IF ~d1.ok \/ ~d2.ok \/ ~d3.ok \/ ~d4.ok \/ ~d5.ok THEN ErrUUID
  ELSE [ok |-> TRUE, u |-> d1.out \o d2.out \o d3.out \o d4.out \o d5.out]

\* FromString after its first test
decodeGroups(str) ==
  decodeAll(Decode(SubSeq(str, 1, 8)), Decode(SubSeq(str, 10, 13)), Decode(SubSeq(str, 15, 18)),
            Decode(SubSeq(str, 20, 23)), Decode(SubSeq(str, 25, 36)))

\* a variant of FromString that tests the length only
FromStringAnySeparator(str) ==
  IF Len(str) # 36 THEN ErrUUID ELSE decodeGroups(str)

\* FromString
FromString(str) ==
  IF Len(str) # 36 \/ str[9] # "-" \/ str[14] # "-" \/ str[19] # "-" \/ str[24] # "-"
  THEN ErrUUID
  ELSE decodeGroups(str)

\* the UUID of the tests, a6075bc7-1a09-443a-b1c0-64de253fb2d6
uuid1 == <<166, 7, 91, 199, 26, 9, 68, 58, 177, 192, 100, 222, 37, 63, 178, 214>>

\* the UUIDs: uuid1 with one byte changed
UUIDs == {[uuid1 EXCEPT ![i] = b] : i \in 1..16, b \in UuidBytes}

\* the strings: those of uuid1 with one character changed, removed or added, and
\* the invalid one of the tests
UuidStrings ==
  {[String(uuid1) EXCEPT ![i] = c] : i \in 1..36, c \in {"0", "f", "A", "F", "g", "-", " "}}
    \cup {SubSeq(String(uuid1), 1, 35), String(uuid1) \o <<"0">>, <<>>,
          <<"n", "o", "t", "-", "a", "-", "u", "u", "i", "d">>}

Uuid(op, u, str, ok) == [op |-> op, u |-> u, str |-> str, ok |-> ok]

UuidInit ==
  /\ uuid = Uuid("none", <<>>, <<>>, TRUE)
  /\ OnlyUuid

\* u.String()
StringCall ==
  /\ \E u \in UUIDs : uuid' = Uuid("String", u, String(u), TRUE)
  /\ UNCHANGED notUuid

\* FromString returned r for the string
Parsed36(str, r) == uuid' = Uuid("FromString", r.u, str, r.ok)

\* FromString(s)
FromStringCall ==
  /\ \E str \in UuidStrings : Parsed36(str, FromString(str))
  /\ UNCHANGED notUuid

UuidNext == StringCall \/ FromStringCall

UuidSpec == UuidInit /\ [][UuidNext]_vars

\* strings.ToLower
ToLower(str) ==
  [i \in 1..Len(str) |->
     IF str[i] \in Upper THEN LowerSeq[CHOOSE j \in 1..Len(UpperSeq) : UpperSeq[j] = str[i]]
     ELSE str[i]]

\* 36 characters, dashes at the positions 8, 13, 18 and 23, hex digits elsewhere
WellFormedUUID(str) ==
  /\ Len(str) = 36
  /\ \A i \in 1..Len(str) : IF i \in {9, 14, 19, 24} THEN str[i] = "-" ELSE IsHexChar(str[i])

\* C21: FromString(u.String()) succeeds and gives u; for a string FromString
\* accepts, the String of the result is the string lower-cased; FromString
\* rejects every string that is not 36 characters with dashes at the positions
\* 8, 13, 18 and 23 and hex digits elsewhere.
C21_TextRoundTrip ==
  /\ uuid.op = "String" => FromString(uuid.str) = [ok |-> TRUE, u |-> uuid.u]
  /\ (uuid.op = "FromString" /\ uuid.ok) => String(uuid.u) = ToLower(uuid.str)
  /\ (uuid.op = "FromString" /\ ~WellFormedUUID(uuid.str)) => ~uuid.ok

\* FromString accepted a string with upper-case digits
C21_Witness ==
  /\ uuid.op = "FromString" /\ uuid.ok
  /\ uuid.str # ToLower(uuid.str)
  /\ String(uuid.u) = ToLower(uuid.str)

(***************************************************************************)
(* Package server: getClientIP.  A string is a sequence of pieces: an      *)
(* address or a word is one piece, and so is each of the separators ":",   *)
(* "[", "]", "," and " ".  An IP is the sequence of its four bytes, or for  *)
(* an IPv6 address that has no IPv4 form the piece of its canonical text.  *)
(***************************************************************************)
NoIP == <<>>

\* net.ParseIP of a piece: the IP, NoIP when it is no address
ParseIPPiece(p) ==
  CASE p = "8.8.8.8" -> <<8, 8, 8, 8>>
    [] p = "1.2.3.4" -> <<1, 2, 3, 4>>
    [] p = "9.9.9.9" -> <<9, 9, 9, 9>>
    [] p = "127.0.0.1" -> <<127, 0, 0, 1>>
    [] p = "100.1.2.3" -> <<100, 1, 2, 3>>
    [] p = "::ffff:100.1.2.3" -> <<100, 1, 2, 3>>
    [] p = "192.168.1.1" -> <<192, 168, 1, 1>>
    [] p = "::1" -> <<"::1">>
    [] p = "2001:DB8::1234" -> <<"2001:db8::1234">>
    [] p = "2001:db8::1234" -> <<"2001:db8::1234">>
    [] OTHER -> NoIP

\* net.ParseIP
ParseIP(str) == IF Len(str) = 1 THEN ParseIPPiece(str[1]) ELSE NoIP

\* IP.String(), for an IP that is not nil
IPString(ip) ==
  IF Len(ip) = 1 THEN ip
  ELSE << CHOOSE p \in {"8.8.8.8", "1.2.3.4", "9.9.9.9", "127.0.0.1", "100.1.2.3", "192.168.1.1"} :
            ParseIPPiece(p) = ip >>

\* net.SplitHostPort: host:port and [host]:port, an error for anything else
SplitHostPort(addr) ==
  IF Len(addr) = 3 /\ addr[2] = ":" THEN [err |-> FALSE, host |-> <<addr[1]>>]
  ELSE IF Len(addr) = 5 /\ addr[1] = "[" /\ addr[3] = "]" /\ addr[4] = ":"
       THEN [err |-> FALSE, host |-> <<addr[2]>>]
  ELSE [err |-> TRUE, host |-> <<>>]

\* trustedNets, as init leaves it: the first byte of the networks 127.0.0.1/8 and 100.0.0.0/8
trustedNets == <<127, 100>>

\* a variant of IPNet.Contains for a network that holds every address
ContainsAll(n, ip) == TRUE

\* IPNet.Contains for a network of 8 bits: an address with an IPv4 form whose first
\* byte is the network's
Contains(n, ip) == Len(ip) = 4 /\ ip[1] = n

\* the loop over trustedNets
isTrusted(ip) == \E i \in 1..Len(trustedNets) : Contains(trustedNets[i], ip)

\* strings.TrimSpace
RECURSIVE TrimSpace(_)
TrimSpace(str) ==
  IF str = <<>> THEN str
  ELSE IF str[1] = " " THEN TrimSpace(Tail(str))
  ELSE IF str[Len(str)] = " " THEN TrimSpace(SubSeq(str, 1, Len(str) - 1))
  ELSE str

\* if idx := strings.Index(ip, ","); idx != -1 { ip = ip[:idx] }; ip = strings.TrimSpace(ip)
firstEntry(ip) ==
  IF \E i \in 1..Len(ip) : ip[i] = ","
  THEN TrimSpace(SubSeq(ip, 1, (CHOOSE i \in 1..Len(ip) : ip[i] = "," /\ \A j \in 1..(i - 1) : ip[j] # ",") - 1))
  ELSE TrimSpace(ip)

\* the loop over the headers X-Forwarded-For and X-Real-IP, from header j on; a
\* header that is not set is the empty string
RECURSIVE fromHeaders(_, _, _)
fromHeaders(headers, j, remoteIP) ==
  IF j > Len(headers) THEN IPString(remoteIP)
  ELSE IF headers[j] # <<>> /\ ParseIP(firstEntry(headers[j])) # NoIP THEN firstEntry(headers[j])
  ELSE fromHeaders(headers, j + 1, remoteIP)

\* getClientIP after remoteIPStr is known
clientIPOf(remoteIPStr, headers) ==
  IF ParseIP(remoteIPStr) = NoIP THEN remoteIPStr
  ELSE IF isTrusted(ParseIP(remoteIPStr)) THEN fromHeaders(headers, 1, ParseIP(remoteIPStr))
  ELSE IPString(ParseIP(remoteIPStr))

\* the host of r.RemoteAddr, or all of it when it does not split
remoteIPStrOf(remoteAddr) ==
  IF SplitHostPort(remoteAddr).err THEN remoteAddr ELSE SplitHostPort(remoteAddr).host

\* getClientIP
getClientIP(remoteAddr, xff, xri) == clientIPOf(remoteIPStrOf(remoteAddr), <<xff, xri>>)

HostPort(h) == <<h, ":", "12345">>

RemoteAddrs ==
  { HostPort("8.8.8.8"), HostPort("127.0.0.1"), HostPort("100.1.2.3"), HostPort("192.168.1.1"),
    <<"[", "::1", "]", ":", "54321">>,
    <<"[", "::ffff:100.1.2.3", "]", ":", "12345">>,
    <<"[", "2001:DB8::1234", "]", ":", "12345">>,
    <<"invalid-address">>,
    HostPort("invalid-address"),
    <<"127.0.0.1">>,
    <<"8.8.8.8">> }

\* the values of a header; the empty one is the header that is not set
HeaderValues ==
  { <<>>,
    <<"1.2.3.4">>,
    <<"9.9.9.9", ",", " ", "1.2.3.4">>,
    <<" ", "2001:db8::1234", " ", ",", "not-an-ip">>,
    <<"not-an-ip">>,
    <<"not-an-ip", ",", "1.2.3.4">>,
    <<"9.9.9.9", " ", "1.2.3.4">> }

Clientip(remoteAddr, xff, xri, got) ==
  [remoteAddr |-> remoteAddr, xff |-> xff, xri |-> xri, got |-> got]

ClientipInit ==
  /\ clientip = Clientip(<<>>, <<>>, <<>>, <<>>)
  /\ OnlyClientip

GetClientIP ==
  /\ \E remoteAddr \in RemoteAddrs, xff, xri \in HeaderValues :
       clientip' = Clientip(remoteAddr, xff, xri, getClientIP(remoteAddr, xff, xri))
  /\ UNCHANGED notClientip

ClientipNext == GetClientIP

ClientipSpec == ClientipInit /\ [][ClientipNext]_vars

\* the address of the peer of the last request, as text
PeerText == remoteIPStrOf(clientip.remoteAddr)

\* the peer's address parses and is in 127.0.0.0/8 or 100.0.0.0/8
TrustedPeer ==
  /\ ParseIP(PeerText) # NoIP
  /\ Len(ParseIP(PeerText)) = 4
  /\ ParseIP(PeerText)[1] \in {127, 100}

\* the peer's address as getClientIP reports it
PeerReported == IF ParseIP(PeerText) = NoIP THEN PeerText ELSE IPString(ParseIP(PeerText))

\* the first entries of the headers of the last request that parse as an IP
ValidEntries ==
  {firstEntry(h) : h \in {x \in {clientip.xff, clientip.xri} : x # <<>> /\ ParseIP(firstEntry(x)) # NoIP}}

\* C28: for a peer that is not trusted the result is the peer's address, whatever
\* the headers hold; for a trusted peer the result is the first entry of a header
\* only if that entry parses as an IP, and the peer's address when none does.
C28_HeadersOnlyFromTrusted ==
  clientip.remoteAddr # <<>> =>
    /\ ~TrustedPeer =>
         /\ clientip.got = PeerReported
         /\ \A x, y \in HeaderValues : getClientIP(clientip.remoteAddr, x, y) = clientip.got
    /\ TrustedPeer =>
         /\ clientip.got # PeerReported => clientip.got \in ValidEntries
         /\ ValidEntries = {} => clientip.got = PeerReported

\* a peer outside the trusted networks sent a header with a valid address and was
\* reported under its own
C28_Witness ==
  /\ clientip.remoteAddr = HostPort("8.8.8.8")
  /\ clientip.xff = <<"1.2.3.4">>
  /\ clientip.got = <<"8.8.8.8">>

(***************************************************************************)
(* Package execx: Slurp.  The function, its two slurper goroutines (1 for  *)
(* stderr, 2 for stdout) and the child process each take steps; a pipe is  *)
(* the bytes written and not yet read, and whether its write end is        *)
(* closed.                                                                 *)
(***************************************************************************)
\* the number of bytes the child writes
MaxOutput == 2

Readers == {1, 2}

Slurping(pc, g, wg, pipe, closed, acc, buf, child, written, ret) ==
  [pc |-> pc, g |-> g, wg |-> wg, pipe |-> pipe, closed |-> closed, acc |-> acc, buf |-> buf,
   child |-> child, written |-> written, ret |-> ret]

NoReturn == [returned |-> FALSE, out |-> <<>>, err |-> <<>>, error |-> ""]

SlurpInit ==
  /\ slurp = Slurping("StderrPipe", <<"none", "none">>, 0, <<<<>>, <<>>>>, <<FALSE, FALSE>>,
                      <<<<>>, <<>>>>, <<<<>>, <<>>>>, "none", 0, NoReturn)
  /\ OnlySlurp

\* return stdoutbuf, stderrbuf, err: the buffers as they are at this moment
Returning(out, err, error) == [returned |-> TRUE, out |-> out, err |-> err, error |-> error]

\* stderr, err := cmd.StderrPipe()
StderrPipe ==
  /\ slurp.pc = "StderrPipe"
  /\ \/ slurp' = [slurp EXCEPT !.pc = "StdoutPipe"]
     \/ slurp' = [slurp EXCEPT !.pc = "returned", !.ret = Returning(<<>>, <<>>, "can't get stderr")]
  /\ UNCHANGED notSlurp

\* stdout, err := cmd.StdoutPipe(); the buffers; wg.Add(2)
StdoutPipe ==
  /\ slurp.pc = "StdoutPipe"
  /\ \/ slurp' = [slurp EXCEPT !.pc = "go1", !.wg = 2]
     \/ slurp' = [slurp EXCEPT !.pc = "returned", !.ret = Returning(<<>>, <<>>, "can't get stdout")]
  /\ UNCHANGED notSlurp

\* go slurper(&stderrbuf, stderr)
GoStderr ==
  /\ slurp.pc = "go1"
  /\ slurp' = [slurp EXCEPT !.pc = "go2", !.g[1] = "ReadAll"]
  /\ UNCHANGED notSlurp

\* go slurper(&stdoutbuf, stdout)
GoStdout ==
  /\ slurp.pc = "go2"
  /\ slurp' = [slurp EXCEPT !.pc = "Start", !.g[2] = "ReadAll"]
  /\ UNCHANGED notSlurp

\* cmd.Start(): the child runs, or Start fails, closes the pipes and Slurp returns
Start ==
  /\ slurp.pc = "Start"
  /\ \/ slurp' = [slurp EXCEPT !.pc = "wg.Wait", !.child = "running"]
     \/ slurp' = [slurp EXCEPT !.pc = "returned", !.closed = <<TRUE, TRUE>>,
                               !.ret = Returning(slurp.buf[2], slurp.buf[1], "can't start")]
  /\ UNCHANGED notSlurp

\* wg.Wait()
WgWait ==
  /\ slurp.pc = "wg.Wait"
  /\ slurp.wg = 0
  /\ slurp' = [slurp EXCEPT !.pc = "cmd.Wait"]
  /\ UNCHANGED notSlurp

\* cmd.Wait(), which returns when the child has exited, and the return after it
CmdWait ==
  /\ slurp.pc = "cmd.Wait"
  /\ slurp.child = "exited"
  /\ \E error \in {"", "can't wait"} :
       slurp' = [slurp EXCEPT !.pc = "returned",
                              !.ret = Returning(slurp.buf[2], slurp.buf[1], error)]
  /\ UNCHANGED notSlurp

\* io.ReadAll(reader) of slurper i takes the bytes that are in the pipe
Read(i) ==
  /\ slurp.g[i] = "ReadAll"
  /\ slurp.pipe[i] # <<>>
  /\ slurp' = [slurp EXCEPT !.acc[i] = @ \o slurp.pipe[i], !.pipe[i] = <<>>]
  /\ UNCHANGED notSlurp

\* io.ReadAll(reader) of slurper i returns at the end of the pipe
ReadAllReturns(i) ==
  /\ slurp.g[i] = "ReadAll"
  /\ slurp.pipe[i] = <<>>
  /\ slurp.closed[i]
  /\ slurp' = [slurp EXCEPT !.g[i] = "assign"]
  /\ UNCHANGED notSlurp

\* *buf, _ = ...
Assign(i) ==
  /\ slurp.g[i] = "assign"
  /\ slurp' = [slurp EXCEPT !.g[i] = "wg.Done", !.buf[i] = slurp.acc[i]]
  /\ UNCHANGED notSlurp

\* wg.Done()
Done(i) ==
  /\ slurp.g[i] = "wg.Done"
  /\ slurp' = [slurp EXCEPT !.g[i] = "done", !.wg = @ - 1]
  /\ UNCHANGED notSlurp

Slurper == \E i \in Readers : Read(i) \/ ReadAllReturns(i) \/ Assign(i) \/ Done(i)

\* the child writes a byte to its stderr or its stdout
ChildWrite ==
  /\ slurp.child = "running"
  /\ slurp.written < MaxOutput
  /\ \E i \in Readers :
       slurp' = [slurp EXCEPT !.pipe[i] = Append(@, "x"), !.written = @ + 1]
  /\ UNCHANGED notSlurp

\* the child exits, which closes the write ends of its pipes
ChildExit ==
  /\ slurp.child = "running"
  /\ slurp' = [slurp EXCEPT !.child = "exited", !.closed = <<TRUE, TRUE>>]
  /\ UNCHANGED notSlurp

SlurpNext ==
  \/ StderrPipe \/ StdoutPipe \/ GoStderr \/ GoStdout \/ Start \/ WgWait \/ CmdWait
  \/ Slurper \/ ChildWrite \/ ChildExit

SlurpSpec == SlurpInit /\ [][SlurpNext]_vars

\* both slurpers have finished: each was started and has called wg.Done
ReadersDone == \A i \in Readers : slurp.g[i] \in {"none", "done"}

\* C29: Slurp never returns while a slurper is running, on the path where
\* cmd.Start fails as well, and cmd.Wait is called only after both are done.
C29_ReadersDone ==
  /\ slurp.pc = "returned" => ReadersDone
  /\ slurp.pc = "cmd.Wait" => ReadersDone

====
